---- MODULE Spec2Model ----
(***************************************************************************)
(* A model of glyphforge: the bezier kernel (bezier.py, geometry.py), the  *)
(* seeded domain-forking RNG (rng.py) and the generation pipeline          *)
(* (generator.py, skeleton.py, templates.py, style.py, presets.py,         *)
(* expansion.py).                                                          *)
(*                                                                         *)
(* Numbers.  Python floats are modelled as exact rationals [n, d] in       *)
(* lowest terms: every identity below is the identity of the arithmetic    *)
(* the code writes down, and binary64 rounding (relative 2^-53) is outside *)
(* the model.  A comparison of lengths is made on the squares, since       *)
(* hypot is irrational.                                                    *)
(***************************************************************************)
EXTENDS Integers, Sequences, FiniteSets, TLC

VARIABLES
    bez,            \* bezier kernel: the CubicBezier the caller holds
    bezFrom,        \* how that curve was built: given, make_line, make_arc
    bzCall,         \* the last bezier call made on it, with its result
    rngs,           \* the SeededRNG objects alive, in order of construction
    settings_cache, \* settings._cache, the module global
    gens,           \* the AlphabetGenerator objects, in order of construction
    calls,          \* the generate calls made so far, with what they returned
    run,            \* one SkeletonGenerator at work, with its template names
    slots,          \* the glyph slots it has produced, in order of production
    skel,           \* the Skeleton a caller of expand_skeleton has built
    expanded,       \* what expand_skeleton returned for it
    given,          \* the arguments a caller of one function holds
    returned        \* what the function returned or raised for them

bezVars == <<bez, bezFrom, bzCall>>
rngVars == <<rngs>>
genVars == <<settings_cache, gens, calls>>
slotVars == <<run, slots>>
expandVars == <<skel, expanded>>
callVars == <<given, returned>>
vars == <<bez, bezFrom, bzCall, rngs, settings_cache, gens, calls, run, slots,
          skel, expanded, given, returned>>
notBezVars == <<rngVars, genVars, slotVars, expandVars, callVars>>
notRngVars == <<bezVars, genVars, slotVars, expandVars, callVars>>
notGenVars == <<bezVars, rngVars, slotVars, expandVars, callVars>>
notSlotVars == <<bezVars, rngVars, genVars, expandVars, callVars>>
notExpandVars == <<bezVars, rngVars, genVars, slotVars, callVars>>
notCallVars == <<bezVars, rngVars, genVars, slotVars, expandVars>>

\* the parts of the state a specification does not use stay as constructed
RngIdle == rngs = <<>>
GenIdle == settings_cache = [loaded |-> FALSE] /\ gens = <<>> /\ calls = <<>>
SlotIdle == run = <<>> /\ slots = <<>>
ExpandIdle == skel = <<>> /\ expanded = <<>>
CallIdle == given = <<>> /\ returned = <<>>

-----------------------------------------------------------------------------
(* Bounds of the model *)

MaxCoord == 1       \* control points have integer coordinates 0..MaxCoord
TDen == 4           \* curve parameters are k/TDen, k in 0..TDen
TolDen == 2         \* flatten tolerances are k/TolDen, k in 1..TolDen
MaxSeed == 0        \* seeds are 0..MaxSeed
MaxRngs == 3        \* SeededRNG objects alive at once
MaxDraws == 2       \* values drawn from one SeededRNG object
MaxCalls == 2       \* generate calls made by one program
MaxJobs == 2        \* glyph slots produced out of turn
MaxStrokes == 2     \* strokes of a skeleton handed to expand_skeleton
MaxDecorations == 1 \* decorations of such a skeleton

-----------------------------------------------------------------------------
(* Exact rationals *)

\* F(v), with v computed once and before F: the model checker evaluates
\* definitions by name, and a long chain of calls is kept short this way
With(v, F(_)) == CHOOSE y \in {F(x) : x \in {v}} : TRUE

RECURSIVE GCD(_, _)
GCD(a, b) == IF b = 0 THEN a ELSE GCD(b, a % b)

Abs(i) == IF i < 0 THEN -i ELSE i

Rat(n, d) ==
    LET s == IF d < 0 THEN -1 ELSE 1
        g == GCD(Abs(n), Abs(d))
    IN  [n |-> (s * n) \div g, d |-> (s * d) \div g]

I2R(i) == [n |-> i, d |-> 1]
Zero == I2R(0)
One == I2R(1)

RAdd(a, b) ==
    LET g == GCD(a.d, b.d)
    IN  Rat(a.n * (b.d \div g) + b.n * (a.d \div g), (a.d \div g) * b.d)
RNeg(a) == [n |-> -a.n, d |-> a.d]
RSub(a, b) == RAdd(a, RNeg(b))
RMul(a, b) ==
    LET g1 == GCD(Abs(a.n), b.d)
        g2 == GCD(Abs(b.n), a.d)
        h1 == IF g1 = 0 THEN 1 ELSE g1
        h2 == IF g2 = 0 THEN 1 ELSE g2
    IN  Rat((a.n \div h1) * (b.n \div h2), (a.d \div h2) * (b.d \div h1))
RDiv(a, b) == RMul(a, IF b.n < 0 THEN [n |-> -b.d, d |-> -b.n] ELSE [n |-> b.d, d |-> b.n])
\* a <= b, a < b: cross-multiplied after cancelling the common factors
RLe(a, b) ==
    LET g == GCD(a.d, b.d)
    IN  a.n * (b.d \div g) <= b.n * (a.d \div g)
RLt(a, b) ==
    LET g == GCD(a.d, b.d)
    IN  a.n * (b.d \div g) < b.n * (a.d \div g)
RAbs(a) == [n |-> Abs(a.n), d |-> a.d]
RMax(a, b) == IF RLe(a, b) THEN b ELSE a
RMin(a, b) == IF RLe(a, b) THEN a ELSE b

-----------------------------------------------------------------------------
(* geometry.py: Point *)

Point(x, y) == [x |-> x, y |-> y]
PAdd(p, q) == Point(RAdd(p.x, q.x), RAdd(p.y, q.y))
PSub(p, q) == Point(RSub(p.x, q.x), RSub(p.y, q.y))
PMul(p, s) == Point(RMul(p.x, s), RMul(p.y, s))

\* Point.lerp: self + (other - self) * t, coordinate by coordinate
lerp(p, q, t) ==
    Point(RAdd(p.x, RMul(RSub(q.x, p.x), t)),
          RAdd(p.y, RMul(RSub(q.y, p.y), t)))

\* Point.length squared: hypot(x, y)^2
LengthSq(p) == RAdd(RMul(p.x, p.x), RMul(p.y, p.y))

\* length() < 1e-12: on the model's grid every non-zero length is far above
\* 1e-12, so the test is on zero
NearZero(p) == LengthSq(p) = Zero

-----------------------------------------------------------------------------
(* glyph.py: CubicBezier; bezier.py *)

CubicBezier(p0, p1, p2, p3) == [p0 |-> p0, p1 |-> p1, p2 |-> p2, p3 |-> p3]

evaluate(b, t) ==
    LET u == RSub(One, t)
        c0 == RMul(RMul(u, u), u)
        c1 == RMul(RMul(RMul(I2R(3), u), u), t)
        c2 == RMul(RMul(RMul(I2R(3), u), t), t)
        c3 == RMul(RMul(t, t), t)
    IN  PAdd(PAdd(PAdd(PMul(b.p0, c0), PMul(b.p1, c1)), PMul(b.p2, c2)),
             PMul(b.p3, c3))

\* tangent: 3u^2 (p1 - p0) + 6ut (p2 - p1) + 3t^2 (p3 - p2)
tangent(b, t) ==
    LET u == RSub(One, t)
    IN  PAdd(PAdd(PMul(PSub(b.p1, b.p0), RMul(RMul(I2R(3), u), u)),
                  PMul(PSub(b.p2, b.p1), RMul(RMul(I2R(6), u), t))),
             PMul(PSub(b.p3, b.p2), RMul(RMul(I2R(3), t), t)))

\* the integer square root, by bisection below 2^15, whose square is still a
\* 32-bit integer
RootCap == 2^15
RECURSIVE RootBetween(_, _, _)
RootBetween(n, lo, hi) ==
    IF lo >= hi THEN lo
    ELSE LET mid == (lo + hi + 1) \div 2
         IN  IF mid * mid <= n THEN RootBetween(n, mid, hi)
             ELSE RootBetween(n, lo, mid - 1)
Root(n) == RootBetween(n, 0, IF n < RootCap THEN n ELSE RootCap)
IsSquare(n) == Root(n) * Root(n) = n

\* math.hypot(p.x, p.y) is a fraction exactly when the sum of the squares
\* is one of squares; Point.length() of such a vector
HasLength(p) == IsSquare(LengthSq(p).n) /\ IsSquare(LengthSq(p).d)
hypot(p) == Rat(Root(LengthSq(p).n), Root(LengthSq(p).d))

\* a plausible slip: the tangent turned clockwise
normal_clockwise(b, t) ==
    LET tan == tangent(b, t)
        perp == Point(tan.y, RNeg(tan.x))
        ln == hypot(perp)
    IN  IF NearZero(perp) THEN Point(Zero, One)
        ELSE Point(RDiv(perp.x, ln), RDiv(perp.y, ln))

\* normal: ln < 1e-12 is a test on zero, as in NearZero
normal(b, t) ==
    LET tan == tangent(b, t)
        perp == Point(RNeg(tan.y), tan.x)
        ln == hypot(perp)
    IN  IF NearZero(perp) THEN Point(Zero, One)
        ELSE Point(RDiv(perp.x, ln), RDiv(perp.y, ln))

\* a plausible slip: the second level interpolated at 1 - t
CasteljauSlip(b, t) ==
    LET p01 == lerp(b.p0, b.p1, t)
        p12 == lerp(b.p1, b.p2, t)
        p23 == lerp(b.p2, b.p3, t)
        p012 == lerp(p01, p12, RSub(One, t))
        p123 == lerp(p12, p23, RSub(One, t))
    IN  [p01 |-> p01, p12 |-> p12, p23 |-> p23, p012 |-> p012, p123 |-> p123,
         p0123 |-> lerp(p012, p123, t)]

\* the six De Casteljau points of split
Casteljau(b, t) ==
    LET p01 == lerp(b.p0, b.p1, t)
        p12 == lerp(b.p1, b.p2, t)
        p23 == lerp(b.p2, b.p3, t)
        p012 == lerp(p01, p12, t)
        p123 == lerp(p12, p23, t)
    IN  [p01 |-> p01, p12 |-> p12, p23 |-> p23, p012 |-> p012, p123 |-> p123,
         p0123 |-> lerp(p012, p123, t)]

\* a plausible slip: the last interpolation taken between the wrong pair
splitSkewed(b, t) ==
    LET c == Casteljau(b, t)
        m == lerp(c.p01, c.p123, t)
    IN  [left |-> CubicBezier(b.p0, c.p01, c.p012, m),
         right |-> CubicBezier(m, c.p123, c.p23, b.p3)]

split(b, t) ==
    LET c == Casteljau(b, t)
    IN  [left |-> CubicBezier(b.p0, c.p01, c.p012, c.p0123),
         right |-> CubicBezier(c.p0123, c.p123, c.p23, b.p3)]

\* a plausible slip: the deviation measured from p0 instead of from the chord
FlatnessSqFromStart(b) ==
    RMax(LengthSq(PSub(b.p1, b.p0)), LengthSq(PSub(b.p2, b.p0)))

\* _flatness squared.  chord_len < 1e-12: the larger of |p1-p0|, |p2-p0|;
\* otherwise the larger distance of p1, p2 from the chord, each
\* |(p - p0) . n| with n = (-chord.y, chord.x) / chord_len
FlatnessSq(b) ==
    LET chord == PSub(b.p3, b.p0)
        l2 == LengthSq(chord)
        dev(p) ==
            LET c == RSub(RMul(RSub(p.y, b.p0.y), chord.x),
                          RMul(RSub(p.x, b.p0.x), chord.y))
            IN  RDiv(RMul(c, c), l2)
    IN  IF NearZero(chord)
        THEN RMax(LengthSq(PSub(b.p1, b.p0)), LengthSq(PSub(b.p2, b.p0)))
        ELSE RMax(dev(b.p1), dev(b.p2))

\* _flatness(bez) <= tolerance, for tolerance >= 0
IsFlat(b, tol) == RLe(FlatnessSq(b), RMul(tol, tol))

RECURSIVE _flatten_recursive(_, _, _)
_flatten_recursive(b, tol, result) ==
    IF IsFlat(b, tol)
    THEN Append(result, b.p3)
    ELSE LET s == split(b, Rat(1, 2))
         IN  _flatten_recursive(s.right, tol,
                 _flatten_recursive(s.left, tol, result))

\* a plausible slip: the result list started empty
flattenNoStart(b, tol) == _flatten_recursive(b, tol, <<>>)

flatten(b, tol) == _flatten_recursive(b, tol, <<b.p0>>)

make_line(p0, p1) ==
    CubicBezier(p0, lerp(p0, p1, Rat(1, 3)), lerp(p0, p1, Rat(2, 3)), p1)

\* a plausible slip: the chord turned clockwise
make_arc_clockwise(start, end, bulge) ==
    LET chord == PSub(end, start)
        perp == Point(chord.y, RNeg(chord.x))
        offset == PMul(perp, bulge)
        cp1 == PAdd(lerp(start, end, Rat(1, 3)), PMul(offset, Rat(4, 5)))
        cp2 == PAdd(lerp(start, end, Rat(2, 3)), PMul(offset, Rat(4, 5)))
    IN  CubicBezier(start, cp1, cp2, end)

make_arc(start, end, bulge) ==
    LET chord == PSub(end, start)
        perp == Point(RNeg(chord.y), chord.x)
        offset == PMul(perp, bulge)
        cp1 == PAdd(lerp(start, end, Rat(1, 3)), PMul(offset, Rat(4, 5)))
        cp2 == PAdd(lerp(start, end, Rat(2, 3)), PMul(offset, Rat(4, 5)))
    IN  CubicBezier(start, cp1, cp2, end)

-----------------------------------------------------------------------------
(* The bezier kernel as a machine: a caller holds a curve and calls        *)
(* split, evaluate and flatten on it, or builds a new one.                 *)

Coords == 0..MaxCoord
GridPoints == {Point(I2R(x), I2R(y)) : x \in Coords, y \in Coords}
\* curves given directly start at the origin; make_line and make_arc start
\* at any grid point
Curves == {CubicBezier(Point(Zero, Zero), b, c, d) :
              b \in GridPoints, c \in GridPoints, d \in GridPoints}
Params == {Rat(k, TDen) : k \in 0..TDen}
Tolerances == {Rat(k, TolDen) : k \in 1..TolDen}
Bulges == {Rat(-1, 2), Zero, Rat(1, 2)}

NoCall == [op |-> "none"]
NoCurve == CubicBezier(Point(Zero, Zero), Point(Zero, Zero),
                       Point(Zero, Zero), Point(Zero, Zero))

BezierIdle ==
    /\ bez = NoCurve
    /\ bezFrom = [how |-> "none"]
    /\ bzCall = NoCall

InitBezier == BezierIdle /\ RngIdle /\ GenIdle /\ SlotIdle /\ ExpandIdle
              /\ CallIdle

\* the caller constructs CubicBezier(p0, p1, p2, p3) directly
Given(c) ==
    /\ bezFrom.how = "none"
    /\ bez' = c
    /\ bezFrom' = [how |-> "given"]
    /\ bzCall' = NoCall
    /\ UNCHANGED notBezVars

MakeLine(p0, p1) ==
    /\ bezFrom.how = "none"
    /\ bez' = make_line(p0, p1)
    /\ bezFrom' = [how |-> "make_line", start |-> p0, end |-> p1]
    /\ bzCall' = NoCall
    /\ UNCHANGED notBezVars

MakeArc(p0, p1, bulge) ==
    /\ bezFrom.how = "none"
    /\ bez' = make_arc(p0, p1, bulge)
    /\ bezFrom' = [how |-> "make_arc", start |-> p0, end |-> p1, bulge |-> bulge]
    /\ bzCall' = NoCall
    /\ UNCHANGED notBezVars

\* one call on the curve held
Split(t) ==
    /\ bezFrom.how # "none"
    /\ bzCall = NoCall
    /\ bzCall' = [op |-> "split", t |-> t, out |-> split(bez, t)]
    /\ UNCHANGED <<bez, bezFrom>>
    /\ UNCHANGED notBezVars

Flatten(tol) ==
    /\ bezFrom.how # "none"
    /\ bzCall = NoCall
    /\ bzCall' = [op |-> "flatten", tol |-> tol, out |-> flatten(bez, tol)]
    /\ UNCHANGED <<bez, bezFrom>>
    /\ UNCHANGED notBezVars

\* normal(curve, t), where the length of the tangent is a fraction
Normal(t) ==
    /\ bezFrom.how # "none"
    /\ bzCall = NoCall
    /\ HasLength(tangent(bez, t))
    /\ bzCall' = [op |-> "normal", t |-> t, out |-> normal(bez, t)]
    /\ UNCHANGED <<bez, bezFrom>>
    /\ UNCHANGED notBezVars

NextBezier ==
    \/ \E c \in Curves : Given(c)
    \/ \E p0 \in GridPoints, p1 \in GridPoints : MakeLine(p0, p1)
    \/ \E p0 \in GridPoints, p1 \in GridPoints, bulge \in Bulges : MakeArc(p0, p1, bulge)
    \/ \E t \in Params : Split(t)
    \/ \E tol \in Tolerances : Flatten(tol)
    \/ \E t \in Params : Normal(t)

SpecBezier == InitBezier /\ [][NextBezier]_vars

-----------------------------------------------------------------------------
(* Claims on the bezier kernel, under SpecBezier *)

\* C7: for every curve and every t in [0,1], split(curve, t) returns
\* (left, right) with left.p0 = curve.p0, right.p3 = curve.p3 and
\* left.p3 = right.p0 = evaluate(curve, t).
C7_SplitJoinsAtEvaluate ==
    bzCall.op = "split" =>
        /\ bzCall.out.left.p0 = bez.p0
        /\ bzCall.out.right.p3 = bez.p3
        /\ bzCall.out.left.p3 = bzCall.out.right.p0
        /\ bzCall.out.left.p3 = evaluate(bez, bzCall.t)

\* a split strictly inside (0,1) of a curve whose split point is neither end
C7_Witness ==
    /\ bzCall.op = "split"
    /\ RLt(Zero, bzCall.t) /\ RLt(bzCall.t, One)
    /\ bzCall.out.left.p3 \notin {bez.p0, bez.p1, bez.p2, bez.p3}

SplitTol == Rat(1, 10000)
Close(p, q) ==
    /\ RLe(RAbs(RSub(p.x, q.x)), SplitTol)
    /\ RLe(RAbs(RSub(p.y, q.y)), SplitTol)

\* C8: for every curve, every split parameter t in (0,1) and every u in
\* [0,1], evaluate(left, u) is evaluate(curve, u*t) and evaluate(right, u) is
\* evaluate(curve, t + u*(1-t)), to within 1e-4.
C8_SplitPreservesCurve ==
    (bzCall.op = "split" /\ RLt(Zero, bzCall.t) /\ RLt(bzCall.t, One)) =>
        \A u \in Params :
            /\ Close(evaluate(bzCall.out.left, u),
                     evaluate(bez, RMul(u, bzCall.t)))
            /\ Close(evaluate(bzCall.out.right, u),
                     evaluate(bez, RAdd(bzCall.t, RMul(u, RSub(One, bzCall.t)))))

\* a split inside (0,1) of a curve that is no straight line, so that the
\* halves are proper curves
C8_Witness ==
    /\ bzCall.op = "split"
    /\ RLt(Zero, bzCall.t) /\ RLt(bzCall.t, One)
    /\ FlatnessSq(bez) # Zero
    /\ FlatnessSq(bzCall.out.left) # Zero
    /\ FlatnessSq(bzCall.out.right) # Zero

\* C9: for every curve and every tolerance > 0, flatten returns a list of
\* at least 2 points whose first point is curve.p0 and whose last point is
\* curve.p3.
C9_FlattenEndpoints ==
    bzCall.op = "flatten" =>
        /\ Len(bzCall.out) >= 2
        /\ bzCall.out[1] = bez.p0
        /\ bzCall.out[Len(bzCall.out)] = bez.p3

\* a flatten that had to subdivide
C9_Witness ==
    /\ bzCall.op = "flatten"
    /\ Len(bzCall.out) > 2

\* both interior control points on the chord: p = p0 + s (p3 - p0), 0 <= s <= 1
OnChord(p, b) ==
    LET c == PSub(b.p3, b.p0)
        v == PSub(p, b.p0)
        dot == RAdd(RMul(v.x, c.x), RMul(v.y, c.y))
    IN  IF NearZero(c)
        THEN p = b.p0
        ELSE /\ RSub(RMul(v.x, c.y), RMul(v.y, c.x)) = Zero
             /\ RLe(Zero, dot) /\ RLe(dot, LengthSq(c))
StraightLine(b) == OnChord(b.p1, b) /\ OnChord(b.p2, b)

-----------------------------------------------------------------------------
(* rng.py: SeededRNG.

   hashlib.sha256 and the Mersenne Twister are library code.  The model
   keeps what the class does with them: the digest is a function of the
   bytes of the text f"{seed}:{domain}" (a polynomial hash over the real
   character codes stands in for SHA-256), and every SeededRNG owns a
   private generator seeded from that digest (a linear congruential
   generator stands in for random.Random).
*)

HashMod == 65521
LcgMod == 1021
LcgMul == 31
LcgInc == 74

\* str.encode(): the codes of the one-character strings of the domain paths
CodeTable ==
    LET punct == "-./0123456789:"
        lower == "abcdefghijklmnopqrstuvwxyz"
    IN  [c \in {SubSeq(punct, i, i) : i \in 1..Len(punct)}
               \cup {"_"} \cup {SubSeq(lower, i, i) : i \in 1..Len(lower)} |->
            IF c = "_" THEN 95
            ELSE IF \E i \in 1..Len(punct) : SubSeq(punct, i, i) = c
                 THEN 44 + (CHOOSE i \in 1..Len(punct) : SubSeq(punct, i, i) = c)
            ELSE 96 + (CHOOSE i \in 1..Len(lower) : SubSeq(lower, i, i) = c)]
Code(c) == CodeTable[c]

\* hashlib.sha256(text.encode()).digest(), read as an integer
RECURSIVE DigestFrom(_, _, _)
DigestFrom(h, text, i) ==
    IF i > Len(text) THEN h
    ELSE With((h * 31 + Code(SubSeq(text, i, i))) % HashMod, LAMBDA h2 :
             DigestFrom(h2, text, i + 1))
Digest(text) == With(text, LAMBDA t : DigestFrom(7, t, 1))

\* random.Random(derived): the generator state after seeding
Seeded(derived) == derived % LcgMod
\* one step of the generator; the value drawn is the new state
Step(st) == (st * LcgMul + LcgInc) % LcgMod

\* SeededRNG.__init__(seed, domain)
SeededRNG(seed, domain) ==
    [seed |-> seed, domain |-> domain,
     st |-> Seeded(Digest(ToString(seed) \o ":" \o domain)),
     out |-> <<>>]

\* a plausible slip: the child seeded from the state the parent is in
forkFromState(parent, subdomain) ==
    [seed |-> parent.seed, domain |-> parent.domain \o "/" \o subdomain,
     st |-> Seeded(Digest(ToString(parent.st) \o ":" \o subdomain)),
     out |-> <<>>]

\* a plausible slip: the subdomain put under the root, not under the parent
forkFromRoot(parent, subdomain) ==
    SeededRNG(parent.seed, "root/" \o subdomain)

\* SeededRNG.fork(subdomain)
fork(parent, subdomain) ==
    SeededRNG(parent.seed, parent.domain \o "/" \o subdomain)

\* SeededRNG.random(): the object after the draw; out records the values
\* this object has returned
random(r) ==
    [r EXCEPT !.st = Step(r.st), !.out = Append(r.out, Step(r.st))]

\* the first n values of a SeededRNG(seed, domain) nobody else has touched
RECURSIVE DrawN(_, _)
DrawN(r, n) ==
    IF n = 0 THEN r ELSE With(random(r), LAMBDA r2 : DrawN(r2, n - 1))
Stream(seed, domain, n) == DrawN(SeededRNG(seed, domain), n).out

Seeds == 0..MaxSeed
Subdomains == {"a", "b"}

InitRng == BezierIdle /\ rngs = <<>> /\ GenIdle /\ SlotIdle /\ ExpandIdle
           /\ CallIdle

\* SeededRNG(seed): a root object
NewRng(seed) ==
    /\ Len(rngs) < MaxRngs
    /\ rngs' = Append(rngs, SeededRNG(seed, "root"))
    /\ UNCHANGED notRngVars

\* rngs[i].fork(subdomain)
Fork(i, subdomain) ==
    /\ Len(rngs) < MaxRngs
    /\ rngs' = Append(rngs, fork(rngs[i], subdomain))
    /\ UNCHANGED notRngVars

\* rngs[i].random()
Draw(i) ==
    /\ Len(rngs[i].out) < MaxDraws
    /\ rngs' = [rngs EXCEPT ![i] = random(rngs[i])]
    /\ UNCHANGED notRngVars

NextRng ==
    \/ \E seed \in Seeds : NewRng(seed)
    \/ \E i \in 1..Len(rngs), subdomain \in Subdomains : Fork(i, subdomain)
    \/ \E i \in 1..Len(rngs) : Draw(i)

SpecRng == InitRng /\ [][NextRng]_vars

\* C3: the stream of a child obtained through fork(subdomain) depends only
\* on (seed, full domain path): whatever was drawn from the parent or from
\* sibling forks, before or after the fork, every object has produced
\* exactly the first values of the stream of its own (seed, domain), the
\* parent included after it has been forked.
C3_StreamDependsOnSeedAndPath ==
    \A i \in 1..Len(rngs) :
        rngs[i].out = Stream(rngs[i].seed, rngs[i].domain, Len(rngs[i].out))

\* the same child path forked twice from one root, once before the root drew
\* and once after, with draws from the root in between; both children and
\* the root have drawn
C3_Witness ==
    \E p, c1, c2 \in 1..Len(rngs) :
        /\ p < c1 /\ c1 < c2
        /\ rngs[p].domain = "root"
        /\ rngs[c1].domain = "root/a" /\ rngs[c2].domain = "root/a"
        /\ rngs[c1].seed = rngs[p].seed /\ rngs[c2].seed = rngs[p].seed
        /\ Len(rngs[p].out) = MaxDraws
        /\ Len(rngs[c1].out) = MaxDraws /\ rngs[c2].out = rngs[c1].out

-----------------------------------------------------------------------------
(* The generation pipeline: generator.py and what it calls.

   The geometry of a stroke, a decoration or a component is a function of
   the style and of the values its RNG object has produced; the model keeps
   of each of them its kind and the state sig of the generator after its
   last draw, which stands for its coordinates.  random.gauss, uniform and
   choice are library code: each is modelled as consuming one value.
*)

Ok(v) == [ok |-> TRUE, value |-> v]
Raise(e) == [ok |-> FALSE, error |-> e]

\* the value of random() in [0, 1)
Unit(v) == Rat(v, LcgMod)

\* SeededRNG.uniform, gauss, coin, choice: the object after the call and the
\* value returned
uniform(r, lo, hi) ==
    With(random(r), LAMBDA r2 :
        [rng |-> r2, value |-> RAdd(lo, RMul(RSub(hi, lo), Unit(r2.st)))])
gauss(r) == random(r)
coin(r, p) ==
    With(random(r), LAMBDA r2 : [rng |-> r2, value |-> RLt(Unit(r2.st), p)])
choice(r, seq) ==
    With(random(r), LAMBDA r2 :
        [rng |-> r2, value |-> seq[(r2.st % Len(seq)) + 1]])

\* SeededRNG.shuffle (random.shuffle), one turn of its loop: lst[i] is swapped
\* with lst[j], j drawn in 0..i
ShuffleTurn(s, i) ==
    With(random(s.rng), LAMBDA r2 :
        [rng |-> r2,
         value |-> [s.value EXCEPT ![i] = s.value[(r2.st % i) + 1],
                                   ![(r2.st % i) + 1] = s.value[i]]])

\* the turns for i from hi down to lo, the upper half first; the halves keep
\* the evaluation shallow and change nothing of the order of the turns
RECURSIVE ShuffleFrom(_, _, _)
ShuffleFrom(s, lo, hi) ==
    IF lo > hi THEN s
    ELSE IF lo = hi THEN ShuffleTurn(s, lo)
    ELSE With(ShuffleFrom(s, ((lo + hi) \div 2) + 1, hi), LAMBDA upper :
             ShuffleFrom(upper, lo, (lo + hi) \div 2))
shuffle(r, lst) == ShuffleFrom([rng |-> r, value |-> lst], 2, Len(lst))

\* a call made through a reference: the state of the object obj after a
\* callee has drawn from the object it was handed (used is that object after
\* the call).  Within one generator every SeededRNG object has its own domain.
AfterUse(obj, used) ==
    IF used.seed = obj.seed /\ used.domain = obj.domain THEN used ELSE obj

-----------------------------------------------------------------------------
(* style.py, settings.py, presets.py *)

\* the enums of style.py: the value of each member
EnumValues ==
    [StrokeWidthMode |-> [STATIC |-> "static", GRADIENT |-> "gradient"],
     CapStyle |-> [ROUND |-> "round", FLAT |-> "flat"],
     JoinStyle |-> [ROUND |-> "round", MITER |-> "miter", BEVEL |-> "bevel"],
     SerifStyle |-> [NONE |-> "none", SLAB |-> "slab", WEDGE |-> "wedge",
                     FLARE |-> "flare"]]
\* the members themselves, which are no strings in Python and equal to no
\* string: the model writes a member as a string of its own
EnumMembers ==
    [StrokeWidthMode |-> [STATIC |-> "StrokeWidthMode.STATIC",
                          GRADIENT |-> "StrokeWidthMode.GRADIENT"],
     CapStyle |-> [ROUND |-> "CapStyle.ROUND", FLAT |-> "CapStyle.FLAT"],
     JoinStyle |-> [ROUND |-> "JoinStyle.ROUND", MITER |-> "JoinStyle.MITER",
                    BEVEL |-> "JoinStyle.BEVEL"],
     SerifStyle |-> [NONE |-> "SerifStyle.NONE", SLAB |-> "SerifStyle.SLAB",
                     WEDGE |-> "SerifStyle.WEDGE", FLARE |-> "SerifStyle.FLARE"]]
EnumOfField ==
    [stroke_width_mode |-> "StrokeWidthMode", cap_style |-> "CapStyle",
     join_style |-> "JoinStyle", serif_style |-> "SerifStyle"]
MemberValues(enum) == {EnumValues[enum][m] : m \in DOMAIN EnumValues[enum]}
Members(enum) == {EnumMembers[enum][m] : m \in DOMAIN EnumMembers[enum]}

\* raise e(message): two errors of one type differ in what they say
RaiseSaying(e, message) == [ok |-> FALSE, error |-> e, message |-> message]

\* enum_cls(value): the member of that value, ValueError when there is none
EnumCall(enum, value) ==
    IF value \in MemberValues(enum)
    THEN Ok(EnumMembers[enum][CHOOSE m \in DOMAIN EnumValues[enum] :
                                 EnumValues[enum][m] = value])
    ELSE RaiseSaying("ValueError", "is not a valid " \o enum)

\* style.py: the fields of AlphabetStyle with their defaults
StyleDefault ==
    [x_height |-> Rat(11, 20),
     cap_height |-> Rat(3, 4),
     descender_depth |-> Rat(1, 4),
     glyph_width |-> Rat(3, 5),
     stroke_width |-> Rat(2, 25),
     stroke_width_mode |-> EnumMembers.StrokeWidthMode.STATIC,
     stroke_taper_ratio |-> Rat(3, 10),
     stroke_angle |-> Rat(0, 1),
     cap_style |-> EnumMembers.CapStyle.ROUND,
     join_style |-> EnumMembers.JoinStyle.ROUND,
     curvature_bias |-> Rat(1, 2),
     loop_probability |-> Rat(1, 10),
     inflection_frequency |-> Rat(3, 10),
     stroke_count_mean |-> Rat(5, 2),
     stroke_count_sigma |-> Rat(4, 5),
     component_reuse |-> Rat(3, 10),
     connectivity |-> Rat(1, 2),
     symmetry_bias |-> Rat(1, 5),
     serif_style |-> EnumMembers.SerifStyle.NONE,
     serif_size |-> Rat(1, 25),
     dot_frequency |-> Rat(1, 10),
     bar_frequency |-> Rat(1, 20),
     flourish_probability |-> Rat(1, 20),
     entry_zone |-> Rat(3, 10),
     exit_zone |-> Rat(7, 10),
     horizontal_bias |-> Rat(0, 1),
     baseline_jitter |-> Rat(1, 50),
     scale_jitter |-> Rat(3, 100),
     rotation_jitter |-> Rat(1, 50),
     aspect_ratio_variance |-> Rat(1, 20),
     control_point_jitter |-> Rat(1, 20),
     anchor_jitter |-> Rat(3, 100)]

StyleFields == DOMAIN StyleDefault

\* AlphabetStyle(**kwargs): a keyword that is no field is a TypeError
AlphabetStyle(kwargs) ==
    IF DOMAIN kwargs \subseteq StyleFields
    THEN Ok([f \in StyleFields |->
                IF f \in DOMAIN kwargs THEN kwargs[f] ELSE StyleDefault[f]])
    ELSE Raise("TypeError")

\* generate_style: the parameters in the order they are sampled
SampleOrder ==
    <<<<"x_height", "range">>,
      <<"cap_height", "range">>,
      <<"descender_depth", "range">>,
      <<"glyph_width", "range">>,
      <<"stroke_width", "range">>,
      <<"stroke_width_mode", "enum">>,
      <<"stroke_taper_ratio", "range">>,
      <<"stroke_angle", "range">>,
      <<"cap_style", "enum">>,
      <<"join_style", "enum">>,
      <<"curvature_bias", "range">>,
      <<"loop_probability", "range">>,
      <<"inflection_frequency", "range">>,
      <<"stroke_count_mean", "range">>,
      <<"stroke_count_sigma", "range">>,
      <<"component_reuse", "range">>,
      <<"connectivity", "range">>,
      <<"symmetry_bias", "range">>,
      <<"serif_style", "enum">>,
      <<"serif_size", "range">>,
      <<"dot_frequency", "range">>,
      <<"bar_frequency", "range">>,
      <<"flourish_probability", "range">>,
      <<"entry_zone", "range">>,
      <<"exit_zone", "range">>,
      <<"horizontal_bias", "range">>,
      <<"baseline_jitter", "range">>,
      <<"scale_jitter", "range">>,
      <<"rotation_jitter", "range">>,
      <<"aspect_ratio_variance", "range">>,
      <<"control_point_jitter", "range">>,
      <<"anchor_jitter", "range">>>>

\* settings.json, parameter_ranges: (lo, hi) of every sampled number
ParameterRanges ==
    [x_height |-> <<Rat(11, 40), Rat(33, 40)>>,
     cap_height |-> <<Rat(3, 8), Rat(9, 8)>>,
     descender_depth |-> <<Rat(1, 8), Rat(3, 8)>>,
     glyph_width |-> <<Rat(3, 10), Rat(9, 10)>>,
     stroke_width |-> <<Rat(1, 25), Rat(3, 25)>>,
     stroke_taper_ratio |-> <<Rat(3, 20), Rat(9, 20)>>,
     stroke_angle |-> <<Rat(-1, 2), Rat(1, 2)>>,
     curvature_bias |-> <<Rat(1, 4), Rat(3, 4)>>,
     loop_probability |-> <<Rat(1, 20), Rat(3, 20)>>,
     inflection_frequency |-> <<Rat(3, 20), Rat(9, 20)>>,
     stroke_count_mean |-> <<Rat(5, 4), Rat(15, 4)>>,
     stroke_count_sigma |-> <<Rat(2, 5), Rat(6, 5)>>,
     component_reuse |-> <<Rat(3, 20), Rat(9, 20)>>,
     connectivity |-> <<Rat(1, 4), Rat(3, 4)>>,
     symmetry_bias |-> <<Rat(1, 10), Rat(3, 10)>>,
     serif_size |-> <<Rat(1, 50), Rat(3, 50)>>,
     dot_frequency |-> <<Rat(1, 20), Rat(3, 20)>>,
     bar_frequency |-> <<Rat(1, 40), Rat(3, 40)>>,
     flourish_probability |-> <<Rat(1, 40), Rat(3, 40)>>,
     entry_zone |-> <<Rat(3, 20), Rat(9, 20)>>,
     exit_zone |-> <<Rat(7, 20), Rat(21, 20)>>,
     horizontal_bias |-> <<Rat(-1, 2), Rat(1, 2)>>,
     baseline_jitter |-> <<Rat(1, 100), Rat(3, 100)>>,
     scale_jitter |-> <<Rat(3, 200), Rat(9, 200)>>,
     rotation_jitter |-> <<Rat(1, 100), Rat(3, 100)>>,
     aspect_ratio_variance |-> <<Rat(1, 40), Rat(3, 40)>>,
     control_point_jitter |-> <<Rat(1, 40), Rat(3, 40)>>,
     anchor_jitter |-> <<Rat(3, 200), Rat(9, 200)>>]

\* settings.json, allowed_values
AllowedValues ==
    [stroke_width_mode |-> <<"static", "gradient">>,
     cap_style |-> <<"round", "flat">>,
     join_style |-> <<"round", "miter", "bevel">>,
     serif_style |-> <<"none", "slab", "wedge", "flare">>]

\* the content of settings.json
SettingsFile ==
    [loaded |-> TRUE, parameter_ranges |-> ParameterRanges,
     allowed_values |-> AllowedValues]
\* settings._cache before the first load
NoCache == [loaded |-> FALSE]

\* settings.load(): the cache after the call, which is also what it returns
load(cache) == IF cache.loaded THEN cache ELSE SettingsFile

\* a plausible slip: the style sampled from the generator's own RNG object
StyleRngShared(rng) == rng

\* generate_style: r = rng.fork("style")
StyleRng(rng) == fork(rng, "style")

\* _rng_range(r, param) and _rng_enum(r, param, enum_cls), on the settings
\* that load() returns
SampleOne(r, settings, k) ==
    IF SampleOrder[k][2] = "range"
    THEN uniform(r, settings.parameter_ranges[SampleOrder[k][1]][1],
                 settings.parameter_ranges[SampleOrder[k][1]][2])
    ELSE With(choice(r, settings.allowed_values[SampleOrder[k][1]]), LAMBDA c :
             [rng |-> c.rng,
              value |-> EnumCall(EnumOfField[SampleOrder[k][1]], c.value).value])

\* generate_style, one parameter: every _rng_range and _rng_enum goes through
\* settings.load()
SampleTurn(s, k) ==
    With(load(s.cache), LAMBDA c2 :
    With(SampleOne(s.rng, c2, k), LAMBDA d :
        [rng |-> d.rng, cache |-> c2,
         style |-> [s.style EXCEPT ![SampleOrder[k][1]] = d.value]]))

\* generate_style: the parameters lo..hi of the 32 sampled in order from one
\* RNG object, the lower half first
RECURSIVE SampleFrom(_, _, _)
SampleFrom(s, lo, hi) ==
    IF lo > hi THEN s
    ELSE IF lo = hi THEN SampleTurn(s, lo)
    ELSE With(SampleFrom(s, lo, (lo + hi) \div 2), LAMBDA lower :
             SampleFrom(lower, ((lo + hi) \div 2) + 1, hi))
generate_style(rng, cache) ==
    With(SampleFrom([rng |-> StyleRng(rng), cache |-> cache,
                     style |-> StyleDefault], 1, Len(SampleOrder)), LAMBDA s :
        [rng |-> AfterUse(rng, s.rng), cache |-> s.cache, style |-> s.style])

\* apply_overrides passing over the keys that are no field
RECURSIVE OverridesSkipUnknown(_, _, _)
OverridesSkipUnknown(style, overrides, k) ==
    IF k > Len(overrides) THEN Ok(style)
    ELSE LET key == overrides[k][1]
             value == overrides[k][2]
         IN  IF key \notin StyleFields
             THEN OverridesSkipUnknown(style, overrides, k + 1)
             ELSE IF key \in DOMAIN EnumOfField
                     /\ value \notin Members(EnumOfField[key])
                  THEN With(EnumCall(EnumOfField[key], value), LAMBDA member :
                           IF ~member.ok THEN member
                           ELSE OverridesSkipUnknown(
                                    [style EXCEPT ![key] = member.value],
                                    overrides, k + 1))
             ELSE OverridesSkipUnknown([style EXCEPT ![key] = value],
                                       overrides, k + 1)

\* apply_overrides: an unknown key is a ValueError; a value that is a string
\* (no member of the enum) for one of the four enum fields goes through the
\* enum, which raises ValueError for a string that is no value of it;
\* overrides is a sequence of <<key, value>>, the items of the dict in order,
\* and replace() is called once the loop is through
RECURSIVE OverridesFrom(_, _, _)
OverridesFrom(style, overrides, k) ==
    IF k > Len(overrides) THEN Ok(style)
    ELSE LET key == overrides[k][1]
             value == overrides[k][2]
         IN  IF key \notin StyleFields
             THEN RaiseSaying("ValueError", "Unknown style parameter")
             ELSE IF key \in DOMAIN EnumOfField
                     /\ value \notin Members(EnumOfField[key])
                  THEN With(EnumCall(EnumOfField[key], value), LAMBDA member :
                           IF ~member.ok THEN member
                           ELSE OverridesFrom([style EXCEPT ![key] = member.value],
                                              overrides, k + 1))
             ELSE With([style EXCEPT ![key] = value], LAMBDA next :
                      OverridesFrom(next, overrides, k + 1))
\* apply_overrides on a new AlphabetStyle() in place of the style given
apply_overrides_on_default(style, overrides) ==
    OverridesFrom(StyleDefault, overrides, 1)
apply_overrides(style, overrides) == OverridesFrom(style, overrides, 1)

\* presets.py: the keyword arguments of each AlphabetStyle(...) of PRESETS,
\* in the order of the dict literal
PresetArgs ==
    <<[name |-> "angular",
        args |->
          [curvature_bias |-> Rat(1, 10),
           loop_probability |-> Rat(1, 50),
           inflection_frequency |-> Rat(1, 10),
           stroke_width |-> Rat(7, 100),
           stroke_taper |-> Rat(1, 10),
           cap_style |-> [enum |-> "CapStyle", member |-> "FLAT"],
           join_style |-> [enum |-> "JoinStyle", member |-> "MITER"],
           serif_style |-> [enum |-> "SerifStyle", member |-> "SLAB"],
           serif_size |-> Rat(1, 25),
           symmetry_bias |-> Rat(3, 10),
           dot_frequency |-> Rat(1, 20),
           bar_frequency |-> Rat(3, 20),
           connectivity |-> Rat(3, 10),
           control_point_jitter |-> Rat(1, 50)]],
      [name |-> "flowing",
        args |->
          [curvature_bias |-> Rat(9, 10),
           loop_probability |-> Rat(1, 4),
           inflection_frequency |-> Rat(1, 2),
           stroke_width |-> Rat(3, 50),
           stroke_width_variance |-> Rat(3, 100),
           stroke_taper |-> Rat(7, 20),
           cap_style |-> [enum |-> "CapStyle", member |-> "TAPERED"],
           join_style |-> [enum |-> "JoinStyle", member |-> "ROUND"],
           serif_style |-> [enum |-> "SerifStyle", member |-> "NONE"],
           connectivity |-> Rat(4, 5),
           symmetry_bias |-> Rat(1, 10),
           dot_frequency |-> Rat(3, 20),
           flourish_probability |-> Rat(3, 25),
           control_point_jitter |-> Rat(2, 25)]],
      [name |-> "geometric",
        args |->
          [curvature_bias |-> Rat(2, 5),
           loop_probability |-> Rat(3, 20),
           inflection_frequency |-> Rat(1, 5),
           stroke_width |-> Rat(2, 25),
           stroke_width_variance |-> Rat(0, 1),
           stroke_taper |-> Rat(0, 1),
           cap_style |-> [enum |-> "CapStyle", member |-> "FLAT"],
           join_style |-> [enum |-> "JoinStyle", member |-> "MITER"],
           serif_style |-> [enum |-> "SerifStyle", member |-> "NONE"],
           symmetry_bias |-> Rat(9, 20),
           connectivity |-> Rat(1, 2),
           dot_frequency |-> Rat(1, 10),
           bar_frequency |-> Rat(1, 10),
           control_point_jitter |-> Rat(1, 50),
           anchor_jitter |-> Rat(1, 100)]],
      [name |-> "blocky",
        args |->
          [curvature_bias |-> Rat(1, 20),
           loop_probability |-> Rat(0, 1),
           inflection_frequency |-> Rat(1, 20),
           stroke_width |-> Rat(3, 25),
           stroke_width_variance |-> Rat(1, 100),
           stroke_taper |-> Rat(0, 1),
           cap_style |-> [enum |-> "CapStyle", member |-> "FLAT"],
           join_style |-> [enum |-> "JoinStyle", member |-> "MITER"],
           serif_style |-> [enum |-> "SerifStyle", member |-> "SLAB"],
           serif_size |-> Rat(3, 50),
           symmetry_bias |-> Rat(2, 5),
           connectivity |-> Rat(1, 5),
           dot_frequency |-> Rat(0, 1),
           bar_frequency |-> Rat(1, 10),
           control_point_jitter |-> Rat(1, 100),
           anchor_jitter |-> Rat(1, 100)]],
      [name |-> "ornate",
        args |->
          [curvature_bias |-> Rat(7, 10),
           loop_probability |-> Rat(1, 5),
           inflection_frequency |-> Rat(2, 5),
           stroke_width |-> Rat(1, 20),
           stroke_width_variance |-> Rat(3, 100),
           stroke_taper |-> Rat(3, 10),
           cap_style |-> [enum |-> "CapStyle", member |-> "TAPERED"],
           join_style |-> [enum |-> "JoinStyle", member |-> "ROUND"],
           serif_style |-> [enum |-> "SerifStyle", member |-> "FLARE"],
           serif_size |-> Rat(1, 20),
           symmetry_bias |-> Rat(3, 20),
           dot_frequency |-> Rat(1, 5),
           bar_frequency |-> Rat(1, 10),
           flourish_probability |-> Rat(3, 20),
           connectivity |-> Rat(3, 5),
           control_point_jitter |-> Rat(7, 100)]],
      [name |-> "runic",
        args |->
          [curvature_bias |-> Rat(0, 1),
           loop_probability |-> Rat(0, 1),
           inflection_frequency |-> Rat(0, 1),
           stroke_width |-> Rat(7, 100),
           stroke_width_variance |-> Rat(1, 100),
           stroke_taper |-> Rat(1, 20),
           cap_style |-> [enum |-> "CapStyle", member |-> "FLAT"],
           join_style |-> [enum |-> "JoinStyle", member |-> "MITER"],
           serif_style |-> [enum |-> "SerifStyle", member |-> "WEDGE"],
           serif_size |-> Rat(3, 100),
           symmetry_bias |-> Rat(7, 20),
           connectivity |-> Rat(2, 5),
           dot_frequency |-> Rat(0, 1),
           bar_frequency |-> Rat(0, 1),
           flourish_probability |-> Rat(0, 1),
           stroke_count_mean |-> Rat(2, 1),
           stroke_count_sigma |-> Rat(1, 2),
           control_point_jitter |-> Rat(1, 100),
           anchor_jitter |-> Rat(1, 100)]]>>

\* one entry of the dict literal: the arguments are evaluated, then the
\* constructor is called
PresetEntry(entry) ==
    LET args == entry.args
        IsEnum(v) == "enum" \in DOMAIN v
        bad == {f \in DOMAIN args :
                   IsEnum(args[f])
                   /\ args[f].member \notin DOMAIN EnumValues[args[f].enum]}
    IN  IF bad # {} THEN Raise("AttributeError")
        ELSE AlphabetStyle([f \in DOMAIN args |->
                 IF IsEnum(args[f]) THEN EnumMembers[args[f].enum][args[f].member]
                 ELSE args[f]])

\* the module-level dict PRESETS: its entries are built in order when
\* presets.py is imported, and the first error ends the import
RECURSIVE BuildPresets(_, _)
BuildPresets(k, acc) ==
    IF k > Len(PresetArgs) THEN Ok(acc)
    ELSE With(PresetEntry(PresetArgs[k]), LAMBDA e :
             IF e.ok
             THEN BuildPresets(k + 1,
                      Append(acc, [name |-> PresetArgs[k].name, style |-> e.value]))
             ELSE e)
PRESETS == BuildPresets(1, <<>>)

PresetNames == {PresetArgs[k].name : k \in 1..Len(PresetArgs)}

\* str.lower() on the names the model uses
LowerTable ==
    [Angular |-> "angular", ANGULAR |-> "angular", Flowing |-> "flowing"]
Lower(name) == IF name \in DOMAIN LowerTable THEN LowerTable[name] ELSE name

\* get_preset(name): the error of building PRESETS reaches whoever needs the
\* table; a name whose lower case is no key of it is a ValueError
get_preset(name) ==
    LET key == Lower(name)
    IN  IF ~PRESETS.ok THEN PRESETS
        ELSE IF \A k \in 1..Len(PRESETS.value) : PRESETS.value[k].name # key
             THEN Raise("ValueError")
        ELSE Ok((CHOOSE e \in {PRESETS.value[k] : k \in 1..Len(PRESETS.value)} :
                     e.name = key).style)

\* list_presets(): the keys of PRESETS (sorted in the code)
list_presets ==
    IF ~PRESETS.ok THEN PRESETS
    ELSE Ok({PRESETS.value[k].name : k \in 1..Len(PRESETS.value)})

-----------------------------------------------------------------------------
(* components.py, templates.py, skeleton.py *)

\* int(x): truncation toward zero
Trunc(a) == IF a.n >= 0 THEN a.n \div a.d ELSE -((-a.n) \div a.d)

\* the number of values each builder of ComponentLibrary._build draws:
\* tick, hook, arc_segment, crossbar, descender, ascender, curve_connector,
\* dot_stroke
BuilderDraws == <<2, 2, 4, 2, 3, 3, 1, 1>>

\* count = max(6, int(8 + s.component_reuse * 10))
ComponentCount(style) ==
    With(Trunc(RAdd(I2R(8), RMul(style.component_reuse, I2R(10)))), LAMBDA c :
        IF c > 6 THEN c ELSE 6)

\* ComponentLibrary(rng, style): the list _components
ComponentLibrary(rng, style) ==
    With(fork(rng, "components"), LAMBDA r :
        [k \in 1..ComponentCount(style) |->
            [kind |-> "comp_" \o ToString(k - 1),
             sig |-> DrawN(fork(r, "comp_" \o ToString(k - 1)),
                           BuilderDraws[((k - 1) % Len(BuilderDraws)) + 1]).st]])

\* templates.py: TEMPLATES in the order of the dict; of every template the
\* bulge of each anchor of each stroke, and the kinds of its decorations
TEMPLATES ==
    <<[name |-> "vertical",
       strokes |-> <<<<Zero, Zero>>>>,
       decorations |-> <<>>],
      [name |-> "horizontal",
       strokes |-> <<<<Zero, Zero>>>>,
       decorations |-> <<>>],
      [name |-> "diagonal_down",
       strokes |-> <<<<Zero, Zero>>>>,
       decorations |-> <<>>],
      [name |-> "diagonal_up",
       strokes |-> <<<<Zero, Zero>>>>,
       decorations |-> <<>>],
      [name |-> "arc_left",
       strokes |-> <<<<Zero, Rat(2, 5), Zero>>>>,
       decorations |-> <<>>],
      [name |-> "arc_right",
       strokes |-> <<<<Zero, Rat(-2, 5), Zero>>>>,
       decorations |-> <<>>],
      [name |-> "s_curve",
       strokes |-> <<<<Zero, Rat(3, 10), Rat(-3, 10), Zero>>>>,
       decorations |-> <<>>],
      [name |-> "loop",
       strokes |-> <<<<Zero, Rat(2, 5), Rat(2, 5), Rat(2, 5), Rat(2, 5)>>>>,
       decorations |-> <<>>],
      [name |-> "spiral",
       strokes |-> <<<<Zero, Rat(7, 20), Rat(7, 20), Rat(7, 20), Rat(1, 4), Zero>>>>,
       decorations |-> <<>>],
      [name |-> "hook_down",
       strokes |-> <<<<Zero, Zero, Rat(3, 10), Zero>>>>,
       decorations |-> <<>>],
      [name |-> "hook_up",
       strokes |-> <<<<Zero, Zero, Rat(-3, 10), Zero>>>>,
       decorations |-> <<>>],
      [name |-> "wave",
       strokes |-> <<<<Zero, Rat(3, 10), Rat(-3, 10), Rat(3, 10), Zero>>>>,
       decorations |-> <<>>],
      [name |-> "cross",
       strokes |-> <<<<Zero, Zero>>, <<Zero, Zero>>>>,
       decorations |-> <<>>],
      [name |-> "t_junction",
       strokes |-> <<<<Zero, Zero>>, <<Zero, Zero>>>>,
       decorations |-> <<>>],
      [name |-> "parallel_vert",
       strokes |-> <<<<Zero, Zero>>, <<Zero, Zero>>>>,
       decorations |-> <<>>],
      [name |-> "parallel_horiz",
       strokes |-> <<<<Zero, Zero>>, <<Zero, Zero>>>>,
       decorations |-> <<>>],
      [name |-> "v_shape",
       strokes |-> <<<<Zero, Zero>>, <<Zero, Zero>>>>,
       decorations |-> <<>>],
      [name |-> "angle_shape",
       strokes |-> <<<<Zero, Zero>>, <<Zero, Zero>>>>,
       decorations |-> <<>>],
      [name |-> "hook_bar",
       strokes |-> <<<<Zero, Zero, Rat(3, 10), Zero>>, <<Zero, Zero>>>>,
       decorations |-> <<>>],
      [name |-> "loop_tail",
       strokes |-> <<<<Zero, Rat(7, 20), Rat(7, 20), Rat(7, 20), Rat(7, 20)>>, <<Zero, Zero>>>>,
       decorations |-> <<>>],
      [name |-> "arc_dot",
       strokes |-> <<<<Zero, Rat(-7, 20), Zero>>>>,
       decorations |-> <<"dot">>],
      [name |-> "y_shape",
       strokes |-> <<<<Zero, Zero>>, <<Zero, Zero, Zero>>>>,
       decorations |-> <<>>],
      [name |-> "crescent",
       strokes |-> <<<<Zero, Rat(9, 20), Zero>>, <<Zero, Rat(1, 4), Zero>>>>,
       decorations |-> <<>>],
      [name |-> "triple_parallel",
       strokes |-> <<<<Zero, Zero>>, <<Zero, Zero>>, <<Zero, Zero>>>>,
       decorations |-> <<>>],
      [name |-> "open_box",
       strokes |-> <<<<Zero, Zero>>, <<Zero, Zero>>, <<Zero, Zero>>>>,
       decorations |-> <<>>],
      [name |-> "zigzag",
       strokes |-> <<<<Zero, Zero>>, <<Zero, Zero>>, <<Zero, Zero>>>>,
       decorations |-> <<>>],
      [name |-> "trident",
       strokes |-> <<<<Zero, Zero>>, <<Zero, Zero>>, <<Zero, Zero>>>>,
       decorations |-> <<"bar">>],
      [name |-> "enclosed_dot",
       strokes |-> <<<<Zero, Zero>>, <<Zero, Zero, Zero, Zero>>>>,
       decorations |-> <<"dot">>],
      [name |-> "stacked_arcs",
       strokes |-> <<<<Zero, Rat(-3, 10), Zero>>, <<Zero, Rat(-3, 10), Zero>>, <<Zero, Rat(-3, 10), Zero>>>>,
       decorations |-> <<>>],
      [name |-> "fork_shape",
       strokes |-> <<<<Zero, Zero>>, <<Zero, Zero>>, <<Zero, Zero>>>>,
       decorations |-> <<>>],
      [name |-> "bridge",
       strokes |-> <<<<Zero, Zero>>, <<Zero, Rat(-3, 10), Zero>>, <<Zero, Zero>>>>,
       decorations |-> <<>>],
      [name |-> "arrow_up",
       strokes |-> <<<<Zero, Zero>>, <<Zero, Zero>>, <<Zero, Zero>>>>,
       decorations |-> <<>>],
      [name |-> "grid",
       strokes |-> <<<<Zero, Zero>>, <<Zero, Zero>>, <<Zero, Zero>>, <<Zero, Zero>>>>,
       decorations |-> <<>>],
      [name |-> "diamond",
       strokes |-> <<<<Zero, Zero>>, <<Zero, Zero>>, <<Zero, Zero>>, <<Zero, Zero>>>>,
       decorations |-> <<>>],
      [name |-> "double_loop",
       strokes |-> <<<<Zero, Rat(7, 20), Rat(7, 20), Rat(7, 20), Rat(7, 20)>>, <<Zero, Rat(7, 20), Rat(7, 20), Rat(7, 20), Rat(7, 20)>>, <<Zero, Zero>>>>,
       decorations |-> <<>>],
      [name |-> "nested_arcs",
       strokes |-> <<<<Zero, Rat(-2, 5), Zero>>, <<Zero, Rat(-3, 10), Zero>>, <<Zero, Zero>>, <<Zero, Zero>>>>,
       decorations |-> <<>>],
      [name |-> "cross_dots",
       strokes |-> <<<<Zero, Zero>>, <<Zero, Zero>>>>,
       decorations |-> <<"dot", "dot", "dot", "dot">>],
      [name |-> "ladder",
       strokes |-> <<<<Zero, Zero>>, <<Zero, Zero>>, <<Zero, Zero>>, <<Zero, Zero>>>>,
       decorations |-> <<>>]>>
TemplateNames == [k \in 1..Len(TEMPLATES) |-> TEMPLATES[k].name]
TemplateOf(name) ==
    CHOOSE t \in {TEMPLATES[k] : k \in 1..Len(TEMPLATES)} : t.name = name

\* a plausible slip: the names beyond the catalog reused as they are
select_templates_reusing(rng, count) ==
    With(shuffle(fork(rng, "template_selection"), TemplateNames).value,
         LAMBDA names :
        [k \in 1..count |-> names[((k - 1) % Len(names)) + 1]])

\* select_templates(rng, count): a copy of the names is shuffled
select_templates(rng, count) ==
    With(shuffle(fork(rng, "template_selection"), TemplateNames).value,
         LAMBDA names :
        IF Len(names) >= count THEN SubSeq(names, 1, count)
        ELSE [k \in 1..count |->
                 IF k <= Len(names) THEN names[k]
                 ELSE names[((k - Len(names) - 1) % Len(names)) + 1] \o "_v"
                      \o ToString(((k - Len(names) - 1) \div Len(names)) + 2)])

\* name.split("_v")[0]
SplitV(name) ==
    LET at == {i \in 1..(Len(name) - 1) : SubSeq(name, i, i + 1) = "_v"}
    IN  IF at = {} THEN name
        ELSE SubSeq(name, 1, (CHOOSE i \in at : \A j \in at : i <= j) - 1)

\* SkeletonGenerator(rng, style, components)
SkeletonGenerator(rng, style, components) ==
    [rng |-> fork(rng, "skeleton"), style |-> style, components |-> components]

\* _spec_to_stroke, one segment: which curve is built between two anchors
\* from the bulge of the first, and the RNG object after that choice
SegmentShape(style, bulge, r) ==
    LET cb == style.curvature_bias
        effective_bulge == RMul(bulge, RAdd(Rat(3, 10), RMul(Rat(7, 10), cb)))
    IN  IF RLt(RMul(RAbs(effective_bulge), I2R(100)), One)
        THEN [rng |-> gauss(r), kind |-> "arc"]
        ELSE IF RLt(Rat(1, 2), cb)
             THEN With(coin(r, RMul(style.inflection_frequency, Rat(3, 10))),
                       LAMBDA c : [rng |-> c.rng,
                                   kind |-> IF c.value THEN "s_curve" ELSE "arc"])
        ELSE [rng |-> r, kind |-> "arc"]

\* _spec_to_stroke, the loop over the segments: segment j lies between
\* anchors j and j + 1; _jitter_control_points draws four gauss
RECURSIVE SegmentsFrom(_, _, _, _, _)
SegmentsFrom(style, anchors, r, j, acc) ==
    IF j >= Len(anchors) THEN [rng |-> r, value |-> acc]
    ELSE With(SegmentShape(style, anchors[j], r), LAMBDA shaped :
         With(DrawN(shaped.rng, 4), LAMBDA r2 :
         With(Append(acc, [kind |-> shaped.kind, sig |-> r2.st]), LAMBDA next :
              SegmentsFrom(style, anchors, r2, j + 1, next))))

\* _spec_to_stroke: two gauss for every anchor, then the segments
_spec_to_stroke(style, anchors, rng) ==
    With(DrawN(rng, 2 * Len(anchors)), LAMBDA r :
        SegmentsFrom(style, anchors, r, 1, <<>>))

RECURSIVE StrokesFrom(_, _, _, _, _)
StrokesFrom(style, specs, r, k, acc) ==
    IF k > Len(specs) THEN [rng |-> r, value |-> acc]
    ELSE With(_spec_to_stroke(style, specs[k], r), LAMBDA s :
         With(Append(acc, s.value), LAMBDA next :
              StrokesFrom(style, specs, s.rng, k + 1, next)))

\* _spec_to_decoration: one gauss for the angle
RECURSIVE DecorationsFrom(_, _, _, _)
DecorationsFrom(kinds, r, k, acc) ==
    IF k > Len(kinds) THEN [rng |-> r, value |-> acc]
    ELSE With(gauss(r), LAMBDA r2 :
         With(Append(acc, [kind |-> kinds[k], sig |-> r2.st]), LAMBDA next :
              DecorationsFrom(kinds, r2, k + 1, next)))

\* a decoration the style adds: coin(p), and when it falls true draws more
\* values and the decoration is appended
MaybeDecoration(r, decorations, p, kind, draws) ==
    With(coin(r, p), LAMBDA c :
        IF c.value
        THEN With(DrawN(c.rng, draws), LAMBDA r2 :
                 [rng |-> r2,
                  value |-> Append(decorations, [kind |-> kind, sig |-> r2.st])])
        ELSE [rng |-> c.rng, value |-> decorations])

\* _add_style_decorations, the serifs: for every stroke and each of its two
\* endpoints coin(0.6), and uniform for the angle of a serif that is placed
RECURSIVE SerifsFrom(_, _, _)
SerifsFrom(r, left, acc) ==
    IF left = 0 THEN [rng |-> r, value |-> acc]
    ELSE With(MaybeDecoration(r, acc, Rat(3, 5), "serif", 1), LAMBDA s :
             SerifsFrom(s.rng, left - 1, s.value))

\* _add_style_decorations: a dot (choice(strokes), choice([start, end]), two
\* gauss), a bar (choice(strokes), uniform), the serifs, a flourish
\* (choice(strokes), uniform)
_add_style_decorations(style, strokes, decorations, rng) ==
    IF strokes = <<>> THEN [rng |-> rng, value |-> decorations]
    ELSE With(MaybeDecoration(rng, decorations, style.dot_frequency, "dot", 4),
              LAMBDA dot :
         With(MaybeDecoration(dot.rng, dot.value, style.bar_frequency, "bar", 2),
              LAMBDA bar :
         With(IF style.serif_style # EnumMembers.SerifStyle.NONE
              THEN SerifsFrom(bar.rng, 2 * Len(strokes), bar.value)
              ELSE bar,
              LAMBDA serifs :
              MaybeDecoration(serifs.rng, serifs.value,
                              style.flourish_probability, "flourish", 2))))

\* _generate_one, the shared component: coin(component_reuse), and with
\* strokes present random_component (choice(_components)) and
\* _place_component (choice(existing), choice([start, end]))
MaybeComponent(gen, strokes, r) ==
    With(coin(r, gen.style.component_reuse), LAMBDA reuse :
        IF reuse.value /\ strokes # <<>>
        THEN With(choice(reuse.rng, gen.components), LAMBDA comp :
             With(DrawN(comp.rng, 2), LAMBDA r2 :
                 [rng |-> r2,
                  value |-> Append(strokes,
                                <<[kind |-> comp.value.kind, sig |-> r2.st]>>)]))
        ELSE [rng |-> reuse.rng, value |-> strokes])

\* _generate_one(template_name, rng): the skeleton, and the RNG object it drew
\* from after the call
_generate_one(gen, template_name, rng) ==
    LET split_name == SplitV(template_name)
        names == {TEMPLATES[k].name : k \in 1..Len(TEMPLATES)}
        base_name == IF split_name \in names THEN split_name ELSE template_name
    IN  IF base_name \notin names THEN Raise("KeyError")
        ELSE With(TemplateOf(base_name), LAMBDA spec :
             With(StrokesFrom(gen.style, spec.strokes, rng, 1, <<>>), LAMBDA st :
             With(DecorationsFrom(spec.decorations, st.rng, 1, <<>>), LAMBDA ds :
             With(_add_style_decorations(gen.style, st.value, ds.value, ds.rng),
                  LAMBDA sd :
             With(MaybeComponent(gen, st.value, sd.rng), LAMBDA placed :
                 Ok([rng |-> placed.rng,
                     skeleton |-> [strokes |-> placed.value,
                                   decorations |-> sd.value,
                                   template_name |-> ""]]))))))

Pad2(i) == IF i < 10 THEN "0" \o ToString(i) ELSE ToString(i)

\* a plausible slip: every glyph drawing from the generator's own RNG object
GlyphRngShared(rng, i) == rng

\* generate_all: glyph_rng = self._rng.fork(f"glyph_{i:02d}")
GlyphRng(rng, i) == fork(rng, "glyph_" \o Pad2(i))

\* generate_all, one turn of the loop for slot i (0-based): the generator
\* after the turn and the skeletons so far; an exception ends the loop
GlyphTurn(s, template_names, i) ==
    IF ~s.ok THEN s
    ELSE With(_generate_one(s.value.gen, template_names[i + 1],
                            GlyphRng(s.value.gen.rng, i)),
              LAMBDA one :
        IF ~one.ok THEN one
        ELSE Ok([gen |-> [s.value.gen EXCEPT
                             !.rng = AfterUse(s.value.gen.rng, one.value.rng)],
                 skeletons |-> Append(s.value.skeletons,
                     [one.value.skeleton EXCEPT
                         !.template_name = SplitV(template_names[i + 1])])]))

\* select_templates(rng, count=26)
TemplateCount == 26

\* generate_all, the turns for the slots lo..hi in order, the lower half first
RECURSIVE TurnsFrom(_, _, _, _)
TurnsFrom(s, template_names, lo, hi) ==
    IF lo > hi THEN s
    ELSE IF lo = hi THEN GlyphTurn(s, template_names, lo)
    ELSE With(TurnsFrom(s, template_names, lo, (lo + hi) \div 2), LAMBDA lower :
             TurnsFrom(lower, template_names, ((lo + hi) \div 2) + 1, hi))
generate_all(gen) ==
    With(select_templates(gen.rng, TemplateCount), LAMBDA template_names :
        TurnsFrom(Ok([gen |-> gen, skeletons |-> <<>>]), template_names,
                  0, Len(template_names) - 1))

-----------------------------------------------------------------------------
(* expansion.py as the pipeline sees it: how many polygons go into an
   outline.  pyclipper is library code. *)

\* PyclipperOffset.Execute(delta) on one open path: at least one path for
\* delta > 0 (the model keeps one), none otherwise
ClipperOffsetPaths(delta) == IF RLt(Zero, delta) THEN 1 ELSE 0

\* _expand_stroke: the number of polygons of one stroke
StrokeParts(style, stroke) ==
    IF Len(stroke) = 0 THEN 0
    ELSE IF style.stroke_width_mode = EnumMembers.StrokeWidthMode.GRADIENT THEN 1
    ELSE ClipperOffsetPaths(RMul(style.stroke_width, I2R(500)))

\* _expand_decoration: the number of polygons of one decoration
DecorationParts(style, dec) ==
    CASE dec.kind = "dot" -> 1
      [] dec.kind = "bar" -> 1
      [] dec.kind = "serif" -> IF style.serif_style = EnumMembers.SerifStyle.NONE THEN 0 ELSE 1
      [] dec.kind = "flourish" ->
             ClipperOffsetPaths(RMul(RMul(style.stroke_width, Rat(3, 5)), I2R(500)))
      [] OTHER -> 0

RECURSIVE SumParts(_, _, _, _)
SumParts(style, strokes, decorations, k) ==
    IF k > Len(strokes) + Len(decorations) THEN 0
    ELSE (IF k <= Len(strokes) THEN StrokeParts(style, strokes[k])
          ELSE DecorationParts(style, decorations[k - Len(strokes)]))
         + SumParts(style, strokes, decorations, k + 1)

\* expand_skeleton as the pipeline sees it: parts polygons are collected and,
\* when there are more than one, handed to _union_polygons, which returns at
\* least one polygon for them
OutlineOf(style, skeleton) ==
    With(SumParts(style, skeleton.strokes, skeleton.decorations, 1), LAMBDA n :
        [parts |-> n, unioned |-> n > 1])

-----------------------------------------------------------------------------
(* generator.py *)

LABELS == "ABCDEFGHIJKLMNOPQRSTUVWXYZ"

Glyph(i, skeleton, outline) ==
    [label |-> SubSeq(LABELS, i + 1, i + 1), index |-> i,
     skeleton |-> skeleton, outline |-> outline,
     template_name |-> skeleton.template_name]

\* AlphabetGenerator(seed, preset, overrides); no preset is "", no overrides <<>>
AlphabetGenerator(seed, preset, overrides) ==
    [seed |-> seed, rng |-> SeededRNG(seed, "root"),
     preset |-> preset, overrides |-> overrides]

\* AlphabetGenerator._build_style
_build_style(g, cache) ==
    With(IF g.preset # ""
         THEN [rng |-> g.rng, cache |-> cache, style |-> get_preset(g.preset)]
         ELSE With(generate_style(g.rng, cache), LAMBDA s :
                  [rng |-> s.rng, cache |-> s.cache, style |-> Ok(s.style)]),
         LAMBDA base :
        IF base.style.ok /\ g.overrides # <<>>
        THEN [base EXCEPT !.style = apply_overrides(base.style.value, g.overrides)]
        ELSE base)

\* generate, after the style is built: component library, skeletons, outlines
Assemble(g, style, rng) ==
    With(ComponentLibrary(fork(rng, "components"), style), LAMBDA components :
    With(generate_all(SkeletonGenerator(rng, style, components)), LAMBDA all :
        IF ~all.ok THEN all
        ELSE Ok([style |-> style, seed |-> g.seed,
                 glyphs |-> [k \in 1..Len(all.value.skeletons) |->
                                Glyph(k - 1, all.value.skeletons[k],
                                      OutlineOf(style, all.value.skeletons[k]))],
                 preset_name |-> g.preset])))

\* AlphabetGenerator.generate: the generator and the settings cache after the
\* call, and what the call returns or raises
generate(g, cache) ==
    With(_build_style(g, cache), LAMBDA b :
        [gen |-> [g EXCEPT !.rng = b.rng], cache |-> b.cache,
         result |-> IF b.style.ok THEN Assemble(g, b.style.value, b.rng)
                    ELSE b.style])

-----------------------------------------------------------------------------
(* The generate calls a program makes: glyphforge.generate builds an
   AlphabetGenerator and calls its generate; a program that keeps the object
   can call generate on it again. *)

\* the presets a caller names: none, and bundled names
Presets == {"", "angular", "geometric"}
\* the overrides a caller passes: none, a valid one, an unknown field
OverrideChoices ==
    {<<>>, <<<<"stroke_width_mode", "gradient">>>>, <<<<"stroke_wdith", One>>>>}

InitGen == BezierIdle /\ RngIdle /\ SlotIdle /\ ExpandIdle /\ CallIdle
           /\ settings_cache = NoCache /\ gens = <<>> /\ calls = <<>>

\* gens[k].generate(), with the call recorded
CallOn(objects, k) ==
    \E g \in {generate(objects[k], settings_cache)} :
        /\ gens' = [objects EXCEPT ![k] = g.gen]
        /\ settings_cache' = g.cache
        /\ calls' = Append(calls, [seed |-> objects[k].seed,
                                   preset |-> objects[k].preset,
                                   overrides |-> objects[k].overrides,
                                   on |-> k, result |-> g.result])

\* glyphforge.generate(seed, preset, overrides)
Generate(seed, preset, overrides) ==
    /\ Len(calls) < MaxCalls
    /\ CallOn(Append(gens, AlphabetGenerator(seed, preset, overrides)),
              Len(gens) + 1)
    /\ UNCHANGED notGenVars

\* gens[k].generate() once more, on an object that an earlier call built
GenerateAgain(k) ==
    /\ Len(calls) < MaxCalls
    /\ CallOn(gens, k)
    /\ UNCHANGED notGenVars

Next ==
    \/ \E seed \in Seeds, preset \in Presets, overrides \in OverrideChoices :
           Generate(seed, preset, overrides)
    \/ \E k \in 1..Len(gens) : GenerateAgain(k)

Spec == InitGen /\ [][Next]_vars

SameInputs(a, b) ==
    a.seed = b.seed /\ a.preset = b.preset /\ a.overrides = b.overrides

\* C2: two generate calls with the same seed, the same preset and the same
\* overrides return the same thing, slot by slot (template name, polygons,
\* the signature of every stroke and decoration), whatever calls were made
\* before and whether on a new AlphabetGenerator or on one used before
C2_SameInputsSameAlphabet ==
    \A i, j \in 1..Len(calls) :
        SameInputs(calls[i], calls[j]) => calls[i].result = calls[j].result

\* two calls with the same inputs have returned alphabets, the later one
\* with the settings cache and the objects of the earlier one in place
C2_Witness ==
    \E i, j \in 1..Len(calls) :
        /\ i < j
        /\ SameInputs(calls[i], calls[j])
        /\ calls[i].result.ok /\ calls[j].result.ok
        /\ Len(calls[j].result.value.glyphs) = 26

ValidOverrides(overrides) ==
    \A k \in 1..Len(overrides) : overrides[k][1] \in StyleFields

\* C1: a generate call with no preset or a bundled preset, and valid
\* overrides, returns 26 glyphs, glyph i with index i and label LABELS[i]
C1_TwentySixLabelled ==
    \A c \in 1..Len(calls) :
        (calls[c].preset \in {""} \cup PresetNames
         /\ ValidOverrides(calls[c].overrides))
        => /\ calls[c].result.ok
           /\ Len(calls[c].result.value.glyphs) = 26
           /\ \A k \in 1..26 :
                  /\ calls[c].result.value.glyphs[k].index = k - 1
                  /\ calls[c].result.value.glyphs[k].label
                         = SubSeq(LABELS, k, k)

\* C5: a generate call with no preset or a bundled preset returns 26 glyphs,
\* and the outline of each holds at least one polygon
C5_EveryOutlineNonEmpty ==
    \A c \in 1..Len(calls) :
        (calls[c].preset \in {""} \cup PresetNames /\ calls[c].overrides = <<>>)
        => /\ calls[c].result.ok
           /\ Len(calls[c].result.value.glyphs) = 26
           /\ \A k \in 1..26 :
                  calls[c].result.value.glyphs[k].outline.parts >= 1

-----------------------------------------------------------------------------
(* The glyph slots of one SkeletonGenerator produced one at a time, in any
   order and any number of times: each job is one turn of the loop of
   generate_all, made on the generator as the jobs before have left it. *)

\* the SkeletonGenerator that generate builds for a seed with no preset, its
\* template names, and the skeletons of the sequential run generate_all
RunOf(seed) ==
    With(generate_style(SeededRNG(seed, "root"), NoCache), LAMBDA s :
    With(SkeletonGenerator(s.rng, s.style,
             ComponentLibrary(fork(s.rng, "components"), s.style)),
         LAMBDA gen :
        [seed |-> seed, gen |-> gen,
         template_names |-> select_templates(gen.rng, TemplateCount),
         reference |-> generate_all(gen).value.skeletons]))

InitSlots == BezierIdle /\ RngIdle /\ GenIdle /\ ExpandIdle /\ CallIdle
             /\ run \in {RunOf(seed) : seed \in Seeds} /\ slots = <<>>

\* one turn of the loop of generate_all for slot i, and expand_skeleton on
\* what it returns
SlotJob(i) ==
    /\ Len(slots) < MaxJobs
    /\ \E t \in {GlyphTurn(Ok([gen |-> run.gen, skeletons |-> <<>>]),
                           run.template_names, i)} :
           /\ t.ok
           /\ run' = [run EXCEPT !.gen = t.value.gen]
           /\ slots' = Append(slots,
                  [index |-> i, skeleton |-> t.value.skeletons[1],
                   outline |-> OutlineOf(run.gen.style, t.value.skeletons[1])])
    /\ UNCHANGED notSlotVars

NextSlots == \E i \in 0..(TemplateCount - 1) : SlotJob(i)

SpecSlots == InitSlots /\ [][NextSlots]_vars

\* C4: whatever slots were produced before it and in whatever order, the
\* skeleton and the outline of slot i are those of slot i of the sequential
\* run
C4_SlotAsInSequentialRun ==
    \A k \in 1..Len(slots) :
        /\ slots[k].skeleton = run.reference[slots[k].index + 1]
        /\ slots[k].outline
               = OutlineOf(run.gen.style, run.reference[slots[k].index + 1])

\* the last slot was produced first and the first after it
C4_Witness ==
    /\ Len(slots) = 2
    /\ slots[1].index = TemplateCount - 1
    /\ slots[2].index = 0
    /\ slots[2].skeleton.strokes # <<>>

-----------------------------------------------------------------------------
(* expansion.py with its geometry, on skeletons whose strokes are straight
   lines along an axis and whose decorations are bars and serifs at quarter
   turns: there hypot, cos and sin are rational.  A contour of an outline
   carries, beside its points, whether it is a hole; the code keeps the
   points only. *)

CLIPPER_SCALE == 1000

\* Point.length() of a vector along an axis
length(p) == RAdd(RAbs(p.x), RAbs(p.y))

\* Point.normalized()
normalized(p) ==
    IF NearZero(p) THEN Point(Zero, Zero)
    ELSE Point(RDiv(p.x, length(p)), RDiv(p.y, length(p)))

Reversed(seq) == [k \in 1..Len(seq) |-> seq[Len(seq) + 1 - k]]

_to_clipper(points) ==
    [k \in 1..Len(points) |->
        <<Trunc(RMul(points[k].x, I2R(CLIPPER_SCALE))),
          Trunc(RMul(points[k].y, I2R(CLIPPER_SCALE)))>>]

_from_clipper(path) ==
    [k \in 1..Len(path) |->
        Point(Rat(path[k][1], CLIPPER_SCALE), Rat(path[k][2], CLIPPER_SCALE))]

\* _signed_area: the shoelace sum of a path of integer pairs, halved
RECURSIVE ShoelaceFrom(_, _)
ShoelaceFrom(path, i) ==
    IF i > Len(path) THEN 0
    ELSE path[i][1] * path[(i % Len(path)) + 1][2]
         - path[(i % Len(path)) + 1][1] * path[i][2]
         + ShoelaceFrom(path, i + 1)
_signed_area(clipper_path) ==
    IF Len(clipper_path) < 3 THEN Zero ELSE Rat(ShoelaceFrom(clipper_path, 1), 2)

\* _collect_polytree: the contour of the node, turned where its winding is
\* not that of its kind, then the contours of its children
RECURSIVE _collect_polytree(_, _)
RECURSIVE CollectChilds(_, _, _)
_collect_polytree(node, result) ==
    LET area == _signed_area(node.Contour)
        contour ==
            IF node.IsHole
            THEN IF RLt(Zero, area) THEN Reversed(node.Contour) ELSE node.Contour
            ELSE IF RLt(area, Zero) THEN Reversed(node.Contour) ELSE node.Contour
    IN  CollectChilds(node.Childs, 1,
            IF node.Contour # <<>>
            THEN Append(result, [points |-> _from_clipper(contour),
                                 hole |-> node.IsHole])
            ELSE result)
CollectChilds(childs, k, result) ==
    IF k > Len(childs) THEN result
    ELSE CollectChilds(childs, k + 1, _collect_polytree(childs[k], result))

\* PyclipperOffset.Execute(delta) on one open path along an axis: for
\* delta > 0 one closed path around it, which the library winds
\* counter-clockwise; the model gives it square ends
ClipperOffset(path, delta) ==
    LET xs == {path[k][1] : k \in 1..Len(path)}
        ys == {path[k][2] : k \in 1..Len(path)}
        minx == CHOOSE x \in xs : \A o \in xs : x <= o
        maxx == CHOOSE x \in xs : \A o \in xs : x >= o
        miny == CHOOSE y \in ys : \A o \in ys : y <= o
        maxy == CHOOSE y \in ys : \A o \in ys : y >= o
    IN  IF delta <= 0 THEN <<>>
        ELSE << <<<<minx - delta, miny - delta>>, <<maxx + delta, miny - delta>>,
                  <<maxx + delta, maxy + delta>>, <<minx - delta, maxy + delta>>>> >>

\* Pyclipper.AddPath(cp, PT_SUBJECT, True): the library refuses a closed path
\* that has no three points off one line, with ClipperException
ClipperAddPath(cp) ==
    \E i \in 1..Len(cp), j \in 1..Len(cp), k \in 1..Len(cp) :
        (cp[j][1] - cp[i][1]) * (cp[k][2] - cp[i][2])
            # (cp[k][1] - cp[i][1]) * (cp[j][2] - cp[i][2])

\* Pyclipper.Execute2(CT_UNION, ...): the PolyTree.  What the union does is
\* the library's: it raises ClipperException (lib.outcome = "raises"), or
\* gives a tree of no contour ("nothing"), or ("contours") the model lets it
\* return the paths it was given, all as given or all reversed
\* (lib.reversed), one of them at most as a hole (lib.hole, 0 for none)
ClipperUnion(paths, lib) ==
    IF lib.outcome = "raises" THEN Raise("ClipperException")
    ELSE Ok([Contour |-> <<>>, IsHole |-> FALSE,
             Childs |-> IF lib.outcome = "nothing" THEN <<>>
                        ELSE [k \in 1..Len(paths) |->
                                [Contour |-> IF lib.reversed
                                             THEN Reversed(paths[k])
                                             ELSE paths[k],
                                 IsHole |-> (k = lib.hole),
                                 Childs |-> <<>>]]])

\* what the library may do with n paths
LibChoices(n) ==
    {[outcome |-> o, reversed |-> FALSE, hole |-> 0] : o \in {"raises", "nothing"}}
    \cup {[outcome |-> "contours", reversed |-> r, hole |-> h] :
              r \in BOOLEAN, h \in 0..n}

\* the cumulative arc length lengths[i] of _build_gradient_outline
RECURSIVE CumLen(_, _)
CumLen(polyline, i) ==
    IF i <= 1 THEN Zero
    ELSE RAdd(CumLen(polyline, i - 1),
              length(PSub(polyline[i], polyline[i - 1])))

\* _build_gradient_outline: the left rail forward, then the right rail
\* backward
_build_gradient_outline(style, polyline) ==
    LET n == Len(polyline)
        w_start == style.stroke_width
        w_end == RMul(style.stroke_width, style.stroke_taper_ratio)
        total_len == CumLen(polyline, n)
        width(i) ==
            RDiv(RAdd(w_start, RMul(RSub(w_end, w_start),
                                    RDiv(CumLen(polyline, i), total_len))),
                 I2R(2))
        direction(i) ==
            IF i = 1 THEN PSub(polyline[2], polyline[1])
            ELSE IF i = n THEN PSub(polyline[n], polyline[n - 1])
            ELSE PSub(polyline[i + 1], polyline[i - 1])
        norm(i) == normalized(Point(RNeg(direction(i).y), direction(i).x))
        left_side == [i \in 1..n |-> PAdd(polyline[i], PMul(norm(i), width(i)))]
        right_side == [i \in 1..n |-> PSub(polyline[i], PMul(norm(i), width(i)))]
    IN  IF n < 2 THEN polyline
        ELSE IF total_len = Zero THEN polyline
        ELSE left_side \o Reversed(right_side)

\* _fallback_outline: a rail on each side of the polyline at half the stroke
\* width, the left one forward, then the right one backward
_fallback_outline(style, polyline) ==
    LET n == Len(polyline)
        w == RDiv(style.stroke_width, I2R(2))
        d(i) ==
            IF i = 1 THEN PSub(polyline[2], polyline[1])
            ELSE IF i = n THEN PSub(polyline[n], polyline[n - 1])
            ELSE PSub(polyline[i + 1], polyline[i - 1])
        norm(i) == normalized(Point(RNeg(d(i).y), d(i).x))
        left == [i \in 1..n |-> PAdd(polyline[i], PMul(norm(i), w))]
        right == [i \in 1..n |-> PSub(polyline[i], PMul(norm(i), w))]
    IN  IF n < 2 THEN polyline ELSE left \o Reversed(right)

\* _offset_polyline: offset_dist = stroke_width * CLIPPER_SCALE / 2; whether
\* the library raises ClipperException from AddPath or Execute is the
\* library's (raises)
_offset_polyline(style, polyline, raises) ==
    LET offset_dist == RDiv(RMul(style.stroke_width, I2R(CLIPPER_SCALE)), I2R(2))
        result == ClipperOffset(_to_clipper(polyline), Trunc(offset_dist))
    IN  IF raises THEN <<_fallback_outline(style, polyline)>>
        ELSE [k \in 1..Len(result) |-> _from_clipper(result[k])]

\* _expand_stroke, the polyline: the segments flattened, the first point of
\* every segment but the first left out
RECURSIVE PolylineFrom(_, _, _, _)
PolylineFrom(segments, tol, i, polyline) ==
    IF i > Len(segments) THEN polyline
    ELSE With(flatten(segments[i], tol), LAMBDA pts :
             PolylineFrom(segments, tol, i + 1,
                 IF i = 1 THEN polyline \o pts
                 ELSE polyline \o SubSeq(pts, 2, Len(pts))))

_expand_stroke(style, stroke, raises) ==
    With(PolylineFrom(stroke, RMax(Rat(1, 100),
                                   RMul(style.stroke_width, Rat(15, 100))),
                      1, <<>>),
         LAMBDA polyline :
        IF Len(polyline) < 2 THEN <<>>
        ELSE IF style.stroke_width_mode = EnumMembers.StrokeWidthMode.GRADIENT
             THEN <<_build_gradient_outline(style, polyline)>>
        ELSE _offset_polyline(style, polyline, raises))

\* math.cos and math.sin at the quarter turns
Cos(angle) == CASE angle = 0 -> One [] angle = 90 -> Zero
Sin(angle) == CASE angle = 0 -> Zero [] angle = 90 -> One

Decoration(kind, position, size, angle) ==
    [kind |-> kind, position |-> position, size |-> size, angle |-> angle]

_make_bar(style, dec) ==
    LET half_len == RDiv(dec.size, I2R(2))
        half_w == RDiv(style.stroke_width, I2R(2))
        ca == Cos(dec.angle)
        sa == Sin(dec.angle)
        corners == <<Point(RNeg(half_len), RNeg(half_w)),
                     Point(half_len, RNeg(half_w)),
                     Point(half_len, half_w),
                     Point(RNeg(half_len), half_w)>>
    IN  <<[k \in 1..4 |->
             Point(RAdd(RSub(RMul(corners[k].x, ca), RMul(corners[k].y, sa)),
                        dec.position.x),
                   RAdd(RAdd(RMul(corners[k].x, sa), RMul(corners[k].y, ca)),
                        dec.position.y))]>>

\* _make_serif, for the slab and the wedge
_make_serif(style, dec) ==
    CASE style.serif_style = EnumMembers.SerifStyle.SLAB ->
             _make_bar(style, Decoration("bar", dec.position,
                                         RMul(dec.size, I2R(2)), dec.angle))
      [] style.serif_style = EnumMembers.SerifStyle.WEDGE ->
             << <<Point(dec.position.x,
                        RSub(dec.position.y, RMul(dec.size, Rat(3, 10)))),
                  Point(RAdd(dec.position.x, dec.size), dec.position.y),
                  Point(RSub(dec.position.x, dec.size), dec.position.y)>> >>
      [] style.serif_style = EnumMembers.SerifStyle.NONE -> <<>>

\* _expand_decoration, for bars and serifs
_expand_decoration(style, dec) ==
    CASE dec.kind = "bar" -> _make_bar(style, dec)
      [] dec.kind = "serif" -> _make_serif(style, dec)

\* the paths _union_polygons adds to the clipper: those of three points or
\* more that AddPath does not refuse
SubjectPaths(polygons) ==
    SelectSeq([k \in 1..Len(polygons) |-> _to_clipper(polygons[k])],
              LAMBDA cp : Len(cp) >= 3 /\ ClipperAddPath(cp))

\* a polygon list as contours of an Outline: none of them marked a hole
AsContours(polygons) ==
    [k \in 1..Len(polygons) |-> [points |-> polygons[k], hole |-> FALSE]]

\* _union_polygons without its two returns of the input: an empty list when
\* Execute2 raises, the walk of the tree whatever it holds
_union_polygons_no_fallback(polygons, lib) ==
    LET tree == ClipperUnion(SubjectPaths(polygons), lib)
    IN  IF ~tree.ok THEN <<>> ELSE _collect_polytree(tree.value, <<>>)

\* _union_polygons
_union_polygons(polygons, lib) ==
    LET tree == ClipperUnion(SubjectPaths(polygons), lib)
        result == _collect_polytree(tree.value, <<>>)
    IN  IF ~tree.ok THEN AsContours(polygons)
        ELSE IF result # <<>> THEN result
        ELSE AsContours(polygons)

RECURSIVE PolygonsFrom(_, _, _, _, _)
PolygonsFrom(style, skeleton, raises, k, all_polygons) ==
    IF k > Len(skeleton.strokes) + Len(skeleton.decorations) THEN all_polygons
    ELSE PolygonsFrom(style, skeleton, raises, k + 1,
             all_polygons \o
             (IF k <= Len(skeleton.strokes)
              THEN _expand_stroke(style, skeleton.strokes[k], raises)
              ELSE _expand_decoration(style,
                       skeleton.decorations[k - Len(skeleton.strokes)])))

\* StrokeExpander(style).expand_skeleton(skeleton): the contours of the
\* Outline; what was not through the union is no hole.  lib is what the
\* library does: lib.offset_raises in every offset, lib.union in the union
expand_skeleton(style, skeleton, lib) ==
    With(PolygonsFrom(style, skeleton, lib.offset_raises, 1, <<>>),
         LAMBDA all_polygons :
        IF Len(all_polygons) > 1 THEN _union_polygons(all_polygons, lib.union)
        ELSE AsContours(all_polygons))

-----------------------------------------------------------------------------
(* A caller builds a skeleton stroke by stroke and has it expanded *)

ExpandPoints == {Point(I2R(x), I2R(y)) : x \in {0, 1}, y \in {0, 1}}
\* the strokes: one make_line along an axis
ExpandStrokes ==
    {<<make_line(e[1], e[2])>> :
        e \in {e \in ExpandPoints \X ExpandPoints :
                  e[1] # e[2] /\ (e[1].x = e[2].x \/ e[1].y = e[2].y)}}
ExpandDecorations ==
    {Decoration(kind, Point(Rat(1, 2), y), Rat(1, 10), 0) :
        kind \in {"bar", "serif"}, y \in {Zero, One}}
\* the styles: the defaults of AlphabetStyle, in both width modes, with wedges
ExpandStyles ==
    {[StyleDefault EXCEPT !.stroke_width_mode = mode,
                          !.serif_style = EnumMembers.SerifStyle.WEDGE] :
        mode \in Members("StrokeWidthMode")}

NotExpanded == [done |-> FALSE]

InitExpand == BezierIdle /\ RngIdle /\ GenIdle /\ SlotIdle /\ CallIdle
              /\ skel = [strokes |-> <<>>, decorations |-> <<>>]
              /\ expanded = NotExpanded

\* skeleton.strokes.append(stroke)
AddStroke(stroke) ==
    /\ ~expanded.done
    /\ Len(skel.strokes) < MaxStrokes
    /\ skel' = [skel EXCEPT !.strokes = Append(@, stroke)]
    /\ UNCHANGED expanded
    /\ UNCHANGED notExpandVars

\* skeleton.decorations.append(dec)
AddDecoration(dec) ==
    /\ ~expanded.done
    /\ Len(skel.decorations) < MaxDecorations
    /\ skel' = [skel EXCEPT !.decorations = Append(@, dec)]
    /\ UNCHANGED expanded
    /\ UNCHANGED notExpandVars

\* StrokeExpander(style).expand_skeleton(skel)
ExpandSkeleton(style, lib) ==
    /\ ~expanded.done
    /\ expanded' = [done |-> TRUE, style |-> style,
                    contours |-> expand_skeleton(style, skel, lib)]
    /\ UNCHANGED skel
    /\ UNCHANGED notExpandVars

NextExpand ==
    \/ \E stroke \in ExpandStrokes : AddStroke(stroke)
    \/ \E dec \in ExpandDecorations : AddDecoration(dec)
    \/ \E style \in ExpandStyles, raises \in BOOLEAN,
          lib \in LibChoices(Len(skel.strokes) + Len(skel.decorations)) :
           ExpandSkeleton(style, [offset_raises |-> raises, union |-> lib])

SpecExpand == InitExpand /\ [][NextExpand]_vars

\* the shoelace signed area of a contour of an Outline
RECURSIVE AreaFrom(_, _)
AreaFrom(points, i) ==
    IF i > Len(points) THEN Zero
    ELSE RAdd(RSub(RMul(points[i].x, points[(i % Len(points)) + 1].y),
                   RMul(points[(i % Len(points)) + 1].x, points[i].y)),
              AreaFrom(points, i + 1))
SignedArea(points) == RDiv(AreaFrom(points, 1), I2R(2))

\* C6: in every Outline that expand_skeleton returns, an outer contour has
\* positive signed area and a hole negative signed area
C6_OutersCcwHolesCw ==
    expanded.done =>
        \A k \in 1..Len(expanded.contours) :
            IF expanded.contours[k].hole
            THEN RLt(SignedArea(expanded.contours[k].points), Zero)
            ELSE RLt(Zero, SignedArea(expanded.contours[k].points))


-----------------------------------------------------------------------------
(* A caller collects polygons, some of them degenerate, and has them united *)

MaxPolygons == 2

UnionPolygons ==
    LET P(x, y) == Point(I2R(x), I2R(y))
    IN  {<<P(0, 0), P(1, 0), P(1, 1), P(0, 1)>>,    \* a square
         <<P(0, 1), P(1, 1), P(1, 0), P(0, 0)>>,    \* the same, clockwise
         <<P(1, 0), P(2, 0), P(1, 1)>>,             \* a triangle
         <<P(0, 0), P(1, 0), P(2, 0)>>,             \* three points on a line
         <<P(0, 0), P(1, 1)>>,                      \* two points
         <<>>}                                      \* no point

NotReturned == [done |-> FALSE]

InitUnion == BezierIdle /\ RngIdle /\ GenIdle /\ SlotIdle /\ ExpandIdle
             /\ given = [polygons |-> <<>>]
             /\ returned = NotReturned

\* all_polygons.extend(...)
AddPolygon(poly) ==
    /\ ~returned.done
    /\ Len(given.polygons) < MaxPolygons
    /\ given' = [given EXCEPT !.polygons = Append(@, poly)]
    /\ UNCHANGED returned
    /\ UNCHANGED notCallVars

\* self._union_polygons(polygons), the library doing lib
UnionOf(lib) ==
    /\ ~returned.done
    /\ returned' = [done |-> TRUE, lib |-> lib,
                    result |-> _union_polygons(given.polygons, lib)]
    /\ UNCHANGED given
    /\ UNCHANGED notCallVars

NextUnion ==
    \/ \E poly \in UnionPolygons : AddPolygon(poly)
    \/ \E lib \in LibChoices(Len(given.polygons)) : UnionOf(lib)

SpecUnion == InitUnion /\ [][NextUnion]_vars

\* the union gave nothing to return: Execute2 raised, or the walk of its tree
\* met no contour
UnionGaveNothing ==
    LET tree == ClipperUnion(SubjectPaths(given.polygons), returned.lib)
    IN  ~tree.ok \/ _collect_polytree(tree.value, <<>>) = <<>>

\* C11: for a non-empty polygon list _union_polygons returns a non-empty
\* list, and when the clipping union raises or yields no contour it returns
\* the polygon list it was given, unchanged
C11_UnionKeepsInk ==
    returned.done =>
        /\ given.polygons # <<>> => returned.result # <<>>
        /\ UnionGaveNothing =>
               [k \in 1..Len(returned.result) |-> returned.result[k].points]
                   = given.polygons

\* two polygons that the clipper does not take, and the list came back
C11_Witness ==
    /\ returned.done
    /\ Len(given.polygons) = 2
    /\ SubjectPaths(given.polygons) = <<>>
    /\ returned.lib.outcome = "contours"
    /\ Len(returned.result) = 2

-----------------------------------------------------------------------------
(* A caller builds one stroke segment by segment, straight along one axis
   line, and has it expanded under a style *)

MaxSegments == 2

\* the styles: the defaults of AlphabetStyle in both width modes, at the
\* default stroke width and at none
StrokeStyles ==
    {[StyleDefault EXCEPT !.stroke_width_mode = mode, !.stroke_width = width] :
        mode \in Members("StrokeWidthMode"), width \in {Rat(8, 100), Zero}}

\* the anchors of a stroke, in order
AnchorsOf(stroke) ==
    IF stroke = <<>> THEN <<>>
    ELSE <<stroke[1].p0>> \o [k \in 1..Len(stroke) |-> stroke[k].p3]

InitStroke == BezierIdle /\ RngIdle /\ GenIdle /\ SlotIdle /\ ExpandIdle
              /\ given \in {[style |-> style, stroke |-> <<>>] :
                               style \in StrokeStyles}
              /\ returned = NotReturned

\* stroke.segments.append(make_line(p, q)): p is where the stroke ends so far,
\* q is on the line of the stroke and may be p itself
AddSegment(p, q) ==
    /\ ~returned.done
    /\ Len(given.stroke) < MaxSegments
    /\ given.stroke # <<>> => p = given.stroke[Len(given.stroke)].p3
    /\ LET anchors == AnchorsOf(given.stroke) \o <<p, q>>
       IN  \/ \A k \in 1..Len(anchors) : anchors[k].x = p.x
           \/ \A k \in 1..Len(anchors) : anchors[k].y = p.y
    /\ given' = [given EXCEPT !.stroke = Append(@, make_line(p, q))]
    /\ UNCHANGED returned
    /\ UNCHANGED notCallVars

\* StrokeExpander(given.style)._expand_stroke(Stroke(given.stroke))
ExpandStroke(raises) ==
    /\ ~returned.done
    /\ returned' = [done |-> TRUE, raises |-> raises,
                    result |-> _expand_stroke(given.style, given.stroke, raises)]
    /\ UNCHANGED given
    /\ UNCHANGED notCallVars

NextStroke ==
    \/ \E p \in ExpandPoints, q \in ExpandPoints : AddSegment(p, q)
    \/ \E raises \in BOOLEAN : ExpandStroke(raises)

SpecStroke == InitStroke /\ [][NextStroke]_vars

\* C12: for a stroke of at least one segment _expand_stroke returns at least
\* one polygon, in static and in gradient mode
C12_StrokeYieldsPolygon ==
    (returned.done /\ Len(given.stroke) >= 1) => returned.result # <<>>

\* where C12 holds: the stroke width positive, or the mode gradient, or the
\* offset raising
C12_HoldsElsewhere ==
    (returned.done /\ Len(given.stroke) >= 1
        /\ (RLt(Zero, given.style.stroke_width)
            \/ given.style.stroke_width_mode = EnumMembers.StrokeWidthMode.GRADIENT
            \/ returned.raises))
    => returned.result # <<>>

-----------------------------------------------------------------------------
(* A caller holds a style, fills a dict of overrides and applies it *)

MaxOverrides == 2

\* the styles a caller holds: AlphabetStyle() and one that differs from it
OverrideStyles ==
    {StyleDefault,
     [StyleDefault EXCEPT !.stroke_width = Rat(1, 10),
                          !.curvature_bias = Rat(9, 10),
                          !.cap_style = EnumMembers.CapStyle.FLAT,
                          !.serif_style = EnumMembers.SerifStyle.SLAB]}

\* the items a caller puts in the dict: numbers for number fields; for enum
\* fields a string that is a value of the enum, a string that is none, or a
\* member; and a key that is no field
OverrideItems ==
    {<<"stroke_width", Rat(1, 5)>>, <<"stroke_width", Rat(1, 2)>>,
     <<"dot_frequency", Rat(9, 10)>>,
     <<"cap_style", "flat">>, <<"cap_style", "tapered">>,
     <<"cap_style", EnumMembers.CapStyle.FLAT>>,
     <<"serif_style", "wedge">>, <<"serif_style", EnumMembers.SerifStyle.FLARE>>,
     <<"nonexistent", I2R(42)>>}

InitOverride == BezierIdle /\ RngIdle /\ GenIdle /\ SlotIdle /\ ExpandIdle
                /\ given \in {[style |-> style, overrides |-> <<>>] :
                                 style \in OverrideStyles}
                /\ returned = NotReturned

\* overrides[key] = value, for a key not yet in the dict
SetOverride(key, value) ==
    /\ ~returned.done
    /\ Len(given.overrides) < MaxOverrides
    /\ \A k \in 1..Len(given.overrides) : given.overrides[k][1] # key
    /\ given' = [given EXCEPT !.overrides = Append(@, <<key, value>>)]
    /\ UNCHANGED returned
    /\ UNCHANGED notCallVars

\* apply_overrides(given.style, given.overrides)
ApplyOverrides ==
    /\ ~returned.done
    /\ returned' = [done |-> TRUE,
                    result |-> apply_overrides(given.style, given.overrides)]
    /\ UNCHANGED given
    /\ UNCHANGED notCallVars

NextOverride ==
    \/ \E item \in OverrideItems : SetOverride(item[1], item[2])
    \/ ApplyOverrides

SpecOverride == InitOverride /\ [][NextOverride]_vars

\* a dict of one item whose key is a field
OneKnownField ==
    /\ returned.done
    /\ Len(given.overrides) = 1
    /\ given.overrides[1][1] \in StyleFields

\* the other fields of the style returned are those of the style given
OthersKept(f) ==
    \A g \in StyleFields \ {f} : returned.result.value[g] = given.style[g]

\* the value is a string handed to an enum field
StringForEnum(f, v) == f \in DOMAIN EnumOfField /\ v \notin Members(EnumOfField[f])

\* C13 as stated: apply_overrides(style, {f: v}) for a field f returns a
\* style whose field f equals v and whose other fields are those of style
C13_FieldEqualsValue ==
    OneKnownField =>
        LET f == given.overrides[1][1]
            v == given.overrides[1][2]
        IN  /\ returned.result.ok
            /\ returned.result.value[f] = v
            /\ OthersKept(f)

\* C13 amended: the field equals v, but for a string v handed to an enum
\* field: then the field is the member of the enum whose value is v, and
\* apply_overrides raises ValueError when no member has that value; the
\* other fields are those of the style given
C13_FieldSetOthersKept ==
    OneKnownField =>
        LET f == given.overrides[1][1]
            v == given.overrides[1][2]
        IN  IF StringForEnum(f, v) /\ v \notin MemberValues(EnumOfField[f])
            THEN ~returned.result.ok /\ returned.result.error = "ValueError"
            ELSE /\ returned.result.ok
                 /\ IF StringForEnum(f, v)
                    THEN /\ returned.result.value[f] \in Members(EnumOfField[f])
                         /\ \E m \in DOMAIN EnumValues[EnumOfField[f]] :
                               /\ EnumValues[EnumOfField[f]][m] = v
                               /\ returned.result.value[f]
                                      = EnumMembers[EnumOfField[f]][m]
                    ELSE returned.result.value[f] = v
                 /\ OthersKept(f)

\* a style that is not AlphabetStyle() had its serif_style overridden by the
\* string of a value
C13_Witness ==
    /\ OneKnownField
    /\ given.style # StyleDefault
    /\ given.overrides[1] = <<"serif_style", "wedge">>
    /\ returned.result.ok
    /\ returned.result.value.serif_style = EnumMembers.SerifStyle.WEDGE

\* C13 through generate: two calls of one seed and no preset, one with no
\* override and one with a single override of a field, return styles that
\* differ in that field at most
C13_ThroughGenerate ==
    \A i \in 1..Len(calls), j \in 1..Len(calls) :
        (/\ calls[i].seed = calls[j].seed
         /\ calls[i].preset = "" /\ calls[j].preset = ""
         /\ calls[i].overrides = <<>>
         /\ Len(calls[j].overrides) = 1
         /\ calls[j].overrides[1][1] \in StyleFields
         /\ calls[i].result.ok)
        => /\ calls[j].result.ok
           /\ \A g \in StyleFields \ {calls[j].overrides[1][1]} :
                 calls[j].result.value.style[g] = calls[i].result.value.style[g]

\* some key of the dict is no field of AlphabetStyle
SomeUnknownKey ==
    \E k \in 1..Len(given.overrides) : given.overrides[k][1] \notin StyleFields

\* C14: apply_overrides raises ValueError whenever a key of the overrides is
\* no field of AlphabetStyle, whatever the other keys: no style is returned
\* and the style given is as it was
C14_UnknownKeyValueError ==
    (returned.done /\ SomeUnknownKey) =>
        /\ ~returned.result.ok /\ returned.result.error = "ValueError"
        /\ given.style \in OverrideStyles

\* an unknown key after a known one, and the call raised
C14_Witness ==
    /\ returned.done
    /\ Len(given.overrides) = 2
    /\ given.overrides[1][1] = "stroke_width"
    /\ given.overrides[2][1] = "nonexistent"
    /\ ~returned.result.ok

\* an unknown key and an enum field with a string that is no value of it
InvalidEnumAt(k) ==
    /\ given.overrides[k][1] \in DOMAIN EnumOfField
    /\ given.overrides[k][2] \notin Members(EnumOfField[given.overrides[k][1]])
    /\ given.overrides[k][2] \notin MemberValues(EnumOfField[given.overrides[k][1]])
UnknownAt(k) == given.overrides[k][1] \notin StyleFields
UnknownAndInvalidEnum ==
    /\ \E k \in 1..Len(given.overrides) : UnknownAt(k)
    /\ \E k \in 1..Len(given.overrides) : InvalidEnumAt(k)

\* C26: apply_overrides rejects unknown field names before any conversion of
\* a string to an enum: with an unknown key and an enum field of invalid
\* string among the overrides, in either order, the error raised is that of
\* the unknown style parameter
C26_UnknownBeforeConversion ==
    (returned.done /\ UnknownAndInvalidEnum) =>
        returned.result = RaiseSaying("ValueError", "Unknown style parameter")

\* what the code does: the error is that of the first of the two in the
\* order of the overrides
C26_FirstInOrderRaises ==
    (returned.done /\ UnknownAndInvalidEnum) =>
        LET first == CHOOSE k \in 1..Len(given.overrides) :
                        /\ UnknownAt(k) \/ InvalidEnumAt(k)
                        /\ \A j \in 1..(k - 1) : ~(UnknownAt(j) \/ InvalidEnumAt(j))
        IN  returned.result =
                IF UnknownAt(first)
                THEN RaiseSaying("ValueError", "Unknown style parameter")
                ELSE RaiseSaying("ValueError", "is not a valid "
                                     \o EnumOfField[given.overrides[first][1]])

\* the invalid string first, the unknown key second, and the call made
C26_EnumErrorReached ==
    /\ returned.done /\ UnknownAndInvalidEnum
    /\ returned.result.message # "Unknown style parameter"

-----------------------------------------------------------------------------
(* A caller asks for presets by name, one after the other *)

MaxLookups == 3

LookupNames ==
    {"angular", "Angular", "flowing", "geometric", "nonexistent_preset"}

InitPreset == BezierIdle /\ RngIdle /\ GenIdle /\ SlotIdle /\ ExpandIdle
              /\ given = <<>> /\ returned = <<>>

\* get_preset(name): the name asked goes to given, what came back to returned
GetPreset(name) ==
    /\ Len(given) < MaxLookups
    /\ given' = Append(given, name)
    /\ returned' = Append(returned, get_preset(name))
    /\ UNCHANGED notCallVars

NextPreset == \E name \in LookupNames : GetPreset(name)

SpecPreset == InitPreset /\ [][NextPreset]_vars

\* an AlphabetStyle whose fields are those of the class, its enum fields
\* holding members of their enums
WellFormedStyle(style) ==
    /\ DOMAIN style = StyleFields
    /\ \A f \in DOMAIN EnumOfField : style[f] \in Members(EnumOfField[f])

\* C15: get_preset(name) returns a well-formed AlphabetStyle for every name
\* that is, in lower case, a name of the bundled presets, and raises
\* ValueError for every other name
C15_PresetsWellFormed ==
    \A k \in 1..Len(given) :
        IF Lower(given[k]) \in PresetNames
        THEN returned[k].ok /\ WellFormedStyle(returned[k].value)
        ELSE returned[k] = Raise("ValueError")

\* what get_preset does instead: every call ends in the TypeError of building
\* the table
C15_EveryLookupTypeError ==
    \A k \in 1..Len(given) : returned[k] = Raise("TypeError")

-----------------------------------------------------------------------------
(* validation.py, on outlines whose polygons are lists of points, and the
   BoundingBox of geometry.py *)

BoundingBox(x_min, y_min, x_max, y_max) ==
    [x_min |-> x_min, y_min |-> y_min, x_max |-> x_max, y_max |-> y_max]
\* BoundingBox.width, .height, .area
BoxWidth(bb) == RSub(bb.x_max, bb.x_min)
BoxHeight(bb) == RSub(bb.y_max, bb.y_min)
BoxArea(bb) == RMul(BoxWidth(bb), BoxHeight(bb))

\* Outline(polygons)
Outline(polygons) == [polygons |-> polygons]

\* x < 1e-12: no positive number that the model holds is that small
BelowTiny(x) == RLe(x, Zero)

\* _polygon_area: the loop over the points, then halved
RECURSIVE ShoelaceSum(_, _, _)
ShoelaceSum(points, i, area) ==
    IF i > Len(points) THEN area
    ELSE LET j == (i % Len(points)) + 1
         IN  With(RSub(RAdd(area, RMul(points[i].x, points[j].y)),
                       RMul(points[j].x, points[i].y)),
                  LAMBDA sum : ShoelaceSum(points, i + 1, sum))
_polygon_area(points) ==
    IF Len(points) < 3 THEN Zero
    ELSE RDiv(ShoelaceSum(points, 1, Zero), I2R(2))

\* estimate_ink_coverage, the loop: total_area += abs(_polygon_area(poly))
RECURSIVE TotalArea(_, _, _)
TotalArea(polygons, k, total_area) ==
    IF k > Len(polygons) THEN total_area
    ELSE With(RAdd(total_area, RAbs(_polygon_area(polygons[k]))),
              LAMBDA sum : TotalArea(polygons, k + 1, sum))

\* estimate_ink_coverage with the total returned as it is, not held to 1
estimate_ink_coverage_unclamped(outline, bbox) ==
    IF BelowTiny(BoxArea(bbox)) THEN Zero
    ELSE RDiv(TotalArea(outline.polygons, 1, Zero), BoxArea(bbox))

estimate_ink_coverage(outline, bbox) ==
    IF BelowTiny(BoxArea(bbox)) THEN Zero
    ELSE RMin(One, RDiv(TotalArea(outline.polygons, 1, Zero), BoxArea(bbox)))

MIN_INK_COVERAGE == Rat(5, 100)
MAX_INK_COVERAGE == Rat(85, 100)
MAX_CONNECTED_COMPONENTS == 8

\* ValidationResult() and ValidationResult.fail(msg)
ValidationResult == [passed |-> TRUE, issues |-> <<>>]
fail(result, msg) == [passed |-> FALSE, issues |-> Append(result.issues, msg)]

\* validate_glyph without its check of the number of polygons
validate_glyph_no_count(glyph, reference_bbox) ==
    LET ink == estimate_ink_coverage(glyph.outline, reference_bbox)
        low == IF RLt(ink, MIN_INK_COVERAGE)
               THEN fail(ValidationResult, "Ink coverage too low")
               ELSE ValidationResult
        high == IF RLt(MAX_INK_COVERAGE, ink)
                THEN fail(low, "Ink coverage too high") ELSE low
    IN  IF glyph.outline.polygons = <<>>
        THEN fail(high, "Glyph has no outline polygons") ELSE high

\* validate_glyph: the four checks in order, each adding its issue
validate_glyph(glyph, reference_bbox) ==
    LET ink == estimate_ink_coverage(glyph.outline, reference_bbox)
        low == IF RLt(ink, MIN_INK_COVERAGE)
               THEN fail(ValidationResult, "Ink coverage too low")
               ELSE ValidationResult
        high == IF RLt(MAX_INK_COVERAGE, ink)
                THEN fail(low, "Ink coverage too high") ELSE low
        many == IF Len(glyph.outline.polygons) > MAX_CONNECTED_COMPONENTS
                THEN fail(high, "Too many components") ELSE high
    IN  IF glyph.outline.polygons = <<>>
        THEN fail(many, "Glyph has no outline polygons") ELSE many

-----------------------------------------------------------------------------
(* The loop of AlphabetGenerator.generate over skeletons with their geometry:
   each is expanded, made a Glyph, validated and appended.  Beside the list
   of glyphs the model keeps what the code throws away: the glyph as it was
   built and the ValidationResult. *)

MaxGlyphs == 2

\* the styles: the defaults in both width modes, and a pen half a unit wide
GlyphStyles ==
    ExpandStyles \cup {[StyleDefault EXCEPT !.stroke_width = Rat(1, 2)]}

\* the skeletons: none of more than one polygon, so that the union is out
GlyphSkeletons ==
    {[strokes |-> <<>>, decorations |-> <<>>, template_name |-> "empty"]}
    \cup {[strokes |-> <<stroke>>, decorations |-> <<>>,
           template_name |-> "line"] :
             stroke \in {s \in ExpandStrokes : s[1].p0 = Point(Zero, Zero)}}
    \cup {[strokes |-> <<>>, decorations |-> <<dec>>, template_name |-> "bar"] :
             dec \in {d \in ExpandDecorations : d.kind = "bar"}}

InitGlyphs == BezierIdle /\ RngIdle /\ GenIdle /\ SlotIdle /\ ExpandIdle
              /\ given \in {[style |-> style, skeletons |-> <<>>] :
                               style \in GlyphStyles}
              /\ returned = [glyphs |-> <<>>, built |-> <<>>, results |-> <<>>]

\* one more skeleton comes out of generate_all
AddSkeleton(skeleton) ==
    /\ returned.glyphs = <<>>
    /\ Len(given.skeletons) < MaxGlyphs
    /\ given' = [given EXCEPT !.skeletons = Append(@, skeleton)]
    /\ UNCHANGED returned
    /\ UNCHANGED notCallVars

\* ref_bbox = BoundingBox(0, 0, style.glyph_width, total_h)
ref_bbox(style) ==
    BoundingBox(Zero, Zero, style.glyph_width,
                RAdd(style.cap_height, style.descender_depth))

\* the loop that appends a glyph only when its validation passed
AppendIfPassed(glyphs, glyph, result) ==
    IF result.passed THEN Append(glyphs, glyph) ELSE glyphs

\* result = validate_glyph(glyph, ref_bbox); glyphs.append(glyph)
AppendGlyph(glyphs, glyph, result) == Append(glyphs, glyph)

\* one turn of the loop, for the skeleton after the glyphs made so far
GlyphStep(raises) ==
    /\ Len(returned.built) < Len(given.skeletons)
    /\ LET i == Len(returned.built)
           skeleton == given.skeletons[i + 1]
           lib == [offset_raises |-> raises, union |-> [outcome |-> "raises"]]
       IN  \E contours \in {expand_skeleton(given.style, skeleton, lib)} :
           \E glyph \in {Glyph(i, skeleton,
                   Outline([k \in 1..Len(contours) |-> contours[k].points]))} :
           \E result \in {validate_glyph(glyph, ref_bbox(given.style))} :
               returned' = [glyphs |-> AppendGlyph(returned.glyphs, glyph, result),
                            built |-> Append(returned.built, glyph),
                            results |-> Append(returned.results, result)]
    /\ UNCHANGED given
    /\ UNCHANGED notCallVars

NextGlyphs ==
    \/ \E skeleton \in GlyphSkeletons : AddSkeleton(skeleton)
    \/ \E raises \in BOOLEAN : GlyphStep(raises)

SpecGlyphs == InitGlyphs /\ [][NextGlyphs]_vars

\* C16: validation is advisory: whatever the ValidationResult of each, the
\* glyphs of the Alphabet are the glyphs as they were built, all of them, in
\* order
C16_ValidationAdvisory ==
    returned.glyphs = returned.built

\* a glyph that passed and one that failed, both in the list
C16_Witness ==
    /\ Len(returned.glyphs) = 2
    /\ returned.results[1].passed
    /\ ~returned.results[2].passed

-----------------------------------------------------------------------------
(* A caller holds a reference box, collects the polygons of an outline and
   has the outline measured or validated *)

MaxOutlinePolygons == 9

\* the polygons, by kind: a unit square, a clockwise triangle of half its
\* area, and two points
PolygonKinds ==
    LET P(x, y) == Point(I2R(x), I2R(y))
    IN  <<<<P(0, 0), P(1, 0), P(1, 1), P(0, 1)>>,
          <<P(0, 0), P(0, 1), P(1, 0)>>,
          <<P(0, 0), P(1, 1)>>>>

\* the reference boxes: of area 1, 2, 8 and 30, and one of no area
ReferenceBoxes ==
    {BoundingBox(Zero, Zero, I2R(w), I2R(h)) :
        w \in {1, 2, 4, 30}, h \in {1}}
    \cup {BoundingBox(Zero, Zero, I2R(4), I2R(2)),
          BoundingBox(Zero, Zero, Zero, Zero)}

InitValidate == BezierIdle /\ RngIdle /\ GenIdle /\ SlotIdle /\ ExpandIdle
                /\ given \in {[bbox |-> bbox, kinds |-> <<>>, polygons |-> <<>>] :
                                 bbox \in ReferenceBoxes}
                /\ returned = NotReturned

\* outline.polygons.append(PolygonKinds[kind]); the polygons come kind by kind
AddOutlinePolygon(kind) ==
    /\ ~returned.done
    /\ Len(given.polygons) < MaxOutlinePolygons
    /\ given.kinds # <<>> => given.kinds[Len(given.kinds)] <= kind
    /\ given' = [given EXCEPT !.kinds = Append(@, kind),
                              !.polygons = Append(@, PolygonKinds[kind])]
    /\ UNCHANGED returned
    /\ UNCHANGED notCallVars

\* estimate_ink_coverage(Outline(given.polygons), given.bbox)
EstimateInk ==
    /\ ~returned.done
    /\ returned' = [done |-> TRUE, call |-> "estimate_ink_coverage",
                    value |-> estimate_ink_coverage(Outline(given.polygons),
                                                    given.bbox)]
    /\ UNCHANGED given
    /\ UNCHANGED notCallVars

\* validate_glyph(glyph, given.bbox) for a glyph of that outline
ValidateGlyph ==
    /\ ~returned.done
    /\ returned' = [done |-> TRUE, call |-> "validate_glyph",
                    value |-> validate_glyph(
                                  [outline |-> Outline(given.polygons)],
                                  given.bbox)]
    /\ UNCHANGED given
    /\ UNCHANGED notCallVars

NextValidate ==
    \/ \E kind \in 1..Len(PolygonKinds) : AddOutlinePolygon(kind)
    \/ EstimateInk
    \/ ValidateGlyph

SpecValidate == InitValidate /\ [][NextValidate]_vars

\* the checks of a glyph that are violated, for an ink coverage ink
ViolatedChecks(ink) ==
    {c \in {"low", "high", "count", "empty"} :
        \/ c = "low" /\ RLt(ink, Rat(5, 100))
        \/ c = "high" /\ RLt(Rat(85, 100), ink)
        \/ c = "count" /\ Len(given.polygons) > 8
        \/ c = "empty" /\ given.polygons = <<>>}

\* C17: validate_glyph reports failure exactly when the ink coverage is below
\* 0.05 or above 0.85, or there are more than 8 polygons, or there is none;
\* it records one issue for each violated check, and passed is TRUE exactly
\* when there is no issue
C17_FailsExactlyOnViolation ==
    (returned.done /\ returned.call = "validate_glyph") =>
        LET violated == ViolatedChecks(
                estimate_ink_coverage(Outline(given.polygons), given.bbox))
        IN  /\ returned.value.passed <=> violated = {}
            /\ Len(returned.value.issues) = Cardinality(violated)
            /\ returned.value.passed <=> returned.value.issues = <<>>

\* nine squares in a box of area 30: the count alone is violated
C17_Witness ==
    /\ returned.done /\ returned.call = "validate_glyph"
    /\ Len(given.polygons) = 9
    /\ BoxArea(given.bbox) = I2R(30)
    /\ \A k \in 1..9 : given.kinds[k] = 1
    /\ returned.value = [passed |-> FALSE, issues |-> <<"Too many components">>]

\* the absolute shoelace areas of the polygons k.. of the outline, summed
RECURSIVE AbsAreaSum(_, _)
AbsAreaSum(polygons, k) ==
    IF k > Len(polygons) THEN Zero
    ELSE RAdd(RAbs(SignedArea(polygons[k])), AbsAreaSum(polygons, k + 1))

\* an ink coverage was estimated against a box of positive area
InkEstimated ==
    /\ returned.done /\ returned.call = "estimate_ink_coverage"
    /\ RLt(Zero, BoxArea(given.bbox))

\* C18 as stated: for a reference box of positive area estimate_ink_coverage
\* returns the sum of the absolute shoelace areas of the polygons divided by
\* the area of the box
C18_InkIsAreaRatio ==
    InkEstimated =>
        returned.value = RDiv(AbsAreaSum(given.polygons, 1), BoxArea(given.bbox))

\* C18 amended: it returns that quotient or 1, whichever is smaller
C18_InkIsAreaRatioUpToOne ==
    InkEstimated =>
        LET ratio == RDiv(AbsAreaSum(given.polygons, 1), BoxArea(given.bbox))
        IN  returned.value = IF RLt(One, ratio) THEN One ELSE ratio

\* a square and a clockwise triangle in a box of area 2: three quarters
C18_Witness ==
    /\ InkEstimated
    /\ given.kinds = <<1, 2>>
    /\ BoxArea(given.bbox) = I2R(2)
    /\ returned.value = Rat(3, 4)

-----------------------------------------------------------------------------
(* skeleton.py and components.py with coordinates: what the pipeline above
   keeps as the kind of a segment is built here point by point.  The values
   of random.gauss are library code; the model holds the variate to one
   standard deviation below the mean, the mean, or one above, after the
   state of the RNG object. *)

\* SeededRNG.gauss(mu, sigma), with its value
gauss_xy(r, mu, sigma) ==
    With(random(r), LAMBDA r2 :
        [rng |-> r2,
         value |-> RAdd(mu, RMul(sigma, I2R((r2.st % 3) - 1)))])

\* make_s_curve
make_s_curve(start, end, amplitude) ==
    LET chord == PSub(end, start)
        perp == Point(RNeg(chord.y), chord.x)
        cp1 == PAdd(lerp(start, end, Rat(1, 3)), PMul(perp, amplitude))
        cp2 == PSub(lerp(start, end, Rat(2, 3)), PMul(perp, amplitude))
    IN  CubicBezier(start, cp1, cp2, end)

\* templates.AnchorPoint(x, y, bulge)
AnchorPoint(x, y, bulge) == [x |-> x, y |-> y, bulge |-> bulge]

\* a plausible slip: the moved anchors not held to [0, 1]
RECURSIVE JitteredUnclamped(_, _, _, _)
JitteredUnclamped(style, anchors, k, s) ==
    IF k > Len(anchors) THEN s
    ELSE With(gauss_xy(s.rng, Zero, style.anchor_jitter), LAMBDA gx :
         With(gauss_xy(gx.rng, Zero, style.anchor_jitter), LAMBDA gy :
         With([rng |-> gy.rng,
               value |-> Append(s.value,
                   Point(RAdd(anchors[k].x, gx.value),
                         RAdd(anchors[k].y, gy.value)))],
              LAMBDA next : JitteredUnclamped(style, anchors, k + 1, next))))

\* _spec_to_stroke, the first loop: every anchor moved by two gauss values
\* and held to [0, 1]
RECURSIVE JitteredFrom(_, _, _, _)
JitteredFrom(style, anchors, k, s) ==
    IF k > Len(anchors) THEN s
    ELSE With(gauss_xy(s.rng, Zero, style.anchor_jitter), LAMBDA gx :
         With(gauss_xy(gx.rng, Zero, style.anchor_jitter), LAMBDA gy :
         With([rng |-> gy.rng,
               value |-> Append(s.value,
                   Point(RMax(Zero, RMin(One, RAdd(anchors[k].x, gx.value))),
                         RMax(Zero, RMin(One, RAdd(anchors[k].y, gy.value)))))],
              LAMBDA next : JitteredFrom(style, anchors, k + 1, next))))

\* _scale_to_metrics
_scale_to_metrics(style, points) ==
    [k \in 1..Len(points) |->
        Point(RMul(points[k].x, style.glyph_width),
              RMul(points[k].y, RAdd(style.cap_height, style.descender_depth)))]

\* _jitter_control_points moving the end points too
_jitter_all_points(seg, amount, rng) ==
    With(DrawN(rng, 4), LAMBDA r4 :
        [rng |-> r4,
         value |-> CubicBezier(
             Point(RAdd(seg.p0.x, amount), seg.p0.y),
             seg.p1, seg.p2,
             Point(seg.p3.x, RAdd(seg.p3.y, amount)))])

\* _jitter_control_points: four gauss values, on p1 and p2
_jitter_control_points(seg, amount, rng) ==
    With(gauss_xy(rng, Zero, amount), LAMBDA jx1 :
    With(gauss_xy(jx1.rng, Zero, amount), LAMBDA jy1 :
    With(gauss_xy(jy1.rng, Zero, amount), LAMBDA jx2 :
    With(gauss_xy(jx2.rng, Zero, amount), LAMBDA jy2 :
        [rng |-> jy2.rng,
         value |-> CubicBezier(
             seg.p0,
             Point(RAdd(seg.p1.x, jx1.value), RAdd(seg.p1.y, jy1.value)),
             Point(RAdd(seg.p2.x, jx2.value), RAdd(seg.p2.y, jy2.value)),
             seg.p3)]))))

\* _spec_to_stroke, one turn of the second loop: the segment from p0 to p1
CurveBetween(style, p0, p1, bulge, rng) ==
    LET effective_bulge ==
            RMul(bulge, RAdd(Rat(3, 10), RMul(Rat(7, 10), style.curvature_bias)))
        cp_jitter == style.control_point_jitter
    IN  With(IF RLt(RAbs(effective_bulge), Rat(1, 100))
             THEN With(gauss_xy(rng, Zero, RMul(cp_jitter, Rat(1, 2))), LAMBDA g :
                      [rng |-> g.rng,
                       value |-> make_arc(p0, p1,
                                     RMul(g.value, style.curvature_bias))])
             ELSE IF RLt(Rat(1, 2), style.curvature_bias)
             THEN With(coin(rng, RMul(style.inflection_frequency, Rat(3, 10))),
                       LAMBDA c :
                      [rng |-> c.rng,
                       value |-> IF c.value
                                 THEN make_s_curve(p0, p1,
                                          RMul(effective_bulge, Rat(7, 10)))
                                 ELSE make_arc(p0, p1, effective_bulge)])
             ELSE [rng |-> rng, value |-> make_arc(p0, p1, effective_bulge)],
             LAMBDA seg : _jitter_control_points(seg.value, cp_jitter, seg.rng))

RECURSIVE CurvesFrom(_, _, _, _, _)
CurvesFrom(style, anchors, scaled, j, s) ==
    IF j >= Len(scaled) THEN s
    ELSE With(CurveBetween(style, scaled[j], scaled[j + 1], anchors[j].bulge,
                           s.rng), LAMBDA seg :
         With([rng |-> seg.rng, value |-> Append(s.value, seg.value)],
              LAMBDA next : CurvesFrom(style, anchors, scaled, j + 1, next)))

\* _spec_to_stroke, with the coordinates: the segments of the Stroke and the
\* RNG object after them
_spec_to_stroke_xy(style, anchors, rng) ==
    With(JitteredFrom(style, anchors, 1, [rng |-> rng, value |-> <<>>]),
         LAMBDA jittered :
        CurvesFrom(style, anchors, _scale_to_metrics(style, jittered.value), 1,
                   [rng |-> jittered.rng, value |-> <<>>]))

\* ComponentLibrary._make_tick and _make_hook
_make_tick(rng) ==
    With(uniform(rng, Rat(1, 10), Rat(1, 4)), LAMBDA len :
    With(uniform(len.rng, Rat(-1, 2), Rat(1, 2)), LAMBDA angle :
        <<make_line(Point(Zero, Zero),
                    Point(RAdd(RMul(len.value, Rat(3, 10)),
                               RMul(angle.value, Rat(1, 10))),
                          len.value))>>))
_make_hook(rng) ==
    With(uniform(rng, Rat(15, 100), Rat(4, 10)), LAMBDA u :
    With(coin(u.rng, Rat(1, 2)), LAMBDA c :
        LET bulge == IF c.value THEN u.value ELSE RNeg(u.value)
            p0 == Point(Zero, Zero)
            p1 == Point(Zero, Rat(3, 10))
            p2 == Point(Rat(15, 100), Rat(4, 10))
        IN  <<make_arc(p0, p1, RMul(bulge, Rat(3, 10))),
              make_arc(p1, p2, bulge)>>))

\* _place_component: the segments of the component moved so that its start
\* is on the start or the end of one of the strokes
_place_component(comp_stroke, existing, rng) ==
    With(choice(rng, existing), LAMBDA ref :
    With(choice(ref.rng, <<ref.value[1].p0, ref.value[Len(ref.value)].p3>>),
         LAMBDA anchor :
        LET dx == RSub(anchor.value.x, comp_stroke[1].p0.x)
            dy == RSub(anchor.value.y, comp_stroke[1].p0.y)
            Moved(p) == Point(RAdd(p.x, dx), RAdd(p.y, dy))
        IN  [k \in 1..Len(comp_stroke) |->
                CubicBezier(Moved(comp_stroke[k].p0), Moved(comp_stroke[k].p1),
                            Moved(comp_stroke[k].p2), Moved(comp_stroke[k].p3))]))

-----------------------------------------------------------------------------
(* A template hands anchors to _spec_to_stroke; a component may then be
   placed on the stroke *)

MaxAnchors == 3

AnchorChoices ==
    {AnchorPoint(I2R(x), I2R(y), Zero) : x \in {0, 1}, y \in {0, 1}}
    \cup {AnchorPoint(Zero, One, Rat(1, 2)), AnchorPoint(One, One, Rat(1, 2))}

\* the defaults of AlphabetStyle, and a curved style that takes every chance
\* of an S-curve
ChainStyles ==
    {StyleDefault,
     [StyleDefault EXCEPT !.curvature_bias = Rat(9, 10),
                          !.inflection_frequency = One]}

\* the RNG objects of the first glyph and of the first components
ChainRngs ==
    {GlyphRng(fork(SeededRNG(seed, "root"), "skeleton"), 0) : seed \in Seeds}
ComponentRng(seed, i) ==
    fork(fork(SeededRNG(seed, "root"), "components"), "comp_" \o ToString(i))

InitChain == BezierIdle /\ RngIdle /\ GenIdle /\ SlotIdle /\ ExpandIdle
             /\ given \in {[style |-> style, rng |-> rng, anchors |-> <<>>] :
                              style \in ChainStyles, rng \in ChainRngs}
             /\ returned = NotReturned

\* anchors.append(AnchorPoint(...)) in a template
AddAnchor(ap) ==
    /\ ~returned.done
    /\ Len(given.anchors) < MaxAnchors
    /\ given' = [given EXCEPT !.anchors = Append(@, ap)]
    /\ UNCHANGED returned
    /\ UNCHANGED notCallVars

\* self._spec_to_stroke(spec, rng)
SpecToStroke ==
    /\ ~returned.done
    /\ \E s \in {_spec_to_stroke_xy(given.style, given.anchors, given.rng)} :
          /\ returned' = [done |-> TRUE, call |-> "_spec_to_stroke",
                          stroke |-> s.value]
          /\ given' = [given EXCEPT !.rng = s.rng]
    /\ UNCHANGED notCallVars

\* self._place_component(comp.stroke, strokes, rng), for the tick (0) or the
\* hook (1) of the library, on the stroke just built
PlaceComponent(i) ==
    /\ returned.done /\ returned.call = "_spec_to_stroke"
    /\ returned.stroke # <<>>
    /\ LET cr == ComponentRng(given.rng.seed, i)
           comp == IF i = 0 THEN _make_tick(cr) ELSE _make_hook(cr)
       IN  returned' = [done |-> TRUE, call |-> "_place_component",
                        stroke |-> _place_component(comp, <<returned.stroke>>,
                                                    given.rng)]
    /\ UNCHANGED given
    /\ UNCHANGED notCallVars

NextChain ==
    \/ \E ap \in AnchorChoices : AddAnchor(ap)
    \/ SpecToStroke
    \/ \E i \in {0, 1} : PlaceComponent(i)

SpecChain == InitChain /\ [][NextChain]_vars

\* C19: the segments of every stroke the skeleton generator builds are
\* chained, segment[i].p3 = segment[i + 1].p0: those built from template
\* anchors and those of a component moved into place
C19_SegmentsChained ==
    returned.done =>
        \A i \in 1..(Len(returned.stroke) - 1) :
            returned.stroke[i].p3 = returned.stroke[i + 1].p0

\* a stroke of two segments from three anchors, the middle anchor moved by
\* its jitter
C19_Witness ==
    /\ returned.done /\ returned.call = "_spec_to_stroke"
    /\ Len(returned.stroke) = 2
    /\ returned.stroke[1].p3
           # Point(RMul(given.anchors[2].x, given.style.glyph_width),
                   RMul(given.anchors[2].y,
                        RAdd(given.style.cap_height,
                             given.style.descender_depth)))

\* a hook placed away from the origin
C19_HookPlaced ==
    /\ returned.done /\ returned.call = "_place_component"
    /\ Len(returned.stroke) = 2
    /\ returned.stroke[1].p0 # Point(Zero, Zero)

\* an S-curve among the segments, on an upright chord: its control points
\* lie on either side of the chord
C19_SCurveBuilt ==
    /\ returned.done /\ returned.call = "_spec_to_stroke"
    /\ \E k \in 1..Len(returned.stroke) :
          LET seg == returned.stroke[k]
          IN  /\ seg.p0.x = seg.p3.x
              /\ \/ RLt(seg.p1.x, seg.p0.x) /\ RLt(seg.p0.x, seg.p2.x)
                 \/ RLt(seg.p2.x, seg.p0.x) /\ RLt(seg.p0.x, seg.p1.x)

\* the box of the glyph metrics, and the places an anchor can be moved to
InMetricsBox(style, p) ==
    /\ RLe(Zero, p.x) /\ RLe(p.x, style.glyph_width)
    /\ RLe(Zero, p.y)
    /\ RLe(p.y, RAdd(style.cap_height, style.descender_depth))
Clamp01(x) == RMax(Zero, RMin(One, x))
AnchorPlaces(style, ap) ==
    LET moves == {RNeg(style.anchor_jitter), Zero, style.anchor_jitter}
    IN  {Point(RMul(Clamp01(RAdd(ap.x, dx)), style.glyph_width),
               RMul(Clamp01(RAdd(ap.y, dy)),
                    RAdd(style.cap_height, style.descender_depth))) :
            dx \in moves, dy \in moves}

\* C27: whatever the jitter drawn, every anchor is held to [0, 1]^2 before
\* it is scaled, so p0 and p3 of every segment of a stroke built from a
\* template stroke spec lie in [0, glyph_width] x [0, cap_height +
\* descender_depth]; the jitter of the control points leaves p0 and p3 the
\* scaled anchors they were
C27_EndpointsInBox ==
    (returned.done /\ returned.call = "_spec_to_stroke") =>
        \A k \in 1..Len(returned.stroke) :
            LET seg == returned.stroke[k]
            IN  /\ InMetricsBox(given.style, seg.p0)
                /\ InMetricsBox(given.style, seg.p3)
                /\ seg.p0 \in AnchorPlaces(given.style, given.anchors[k])
                /\ seg.p3 \in AnchorPlaces(given.style, given.anchors[k + 1])

\* a segment from the left edge to a point the jitter moved off the right
\* edge inward, its first control point outside the box
C27_Witness ==
    /\ returned.done /\ returned.call = "_spec_to_stroke"
    /\ \E k \in 1..Len(returned.stroke) :
          LET seg == returned.stroke[k]
          IN  /\ seg.p0.x = Zero
              /\ RLt(Zero, seg.p3.x) /\ RLt(seg.p3.x, given.style.glyph_width)
              /\ ~InMetricsBox(given.style, seg.p1)

\* ---------------------------------------------------------------------------
\* geometry.py BoundingBox construction; glyph.py bounds
\* ---------------------------------------------------------------------------

\* min(xs), max(xs) of a non-empty list
RECURSIVE MinOf(_, _, _)
MinOf(xs, i, best) ==
    IF i > Len(xs) THEN best ELSE MinOf(xs, i + 1, RMin(best, xs[i]))
RECURSIVE MaxOf(_, _, _)
MaxOf(xs, i, best) ==
    IF i > Len(xs) THEN best ELSE MaxOf(xs, i + 1, RMax(best, xs[i]))

\* BoundingBox.from_points: min() and max() of an empty list raise ValueError
from_points(points) ==
    LET xs == [i \in 1..Len(points) |-> points[i].x]
        ys == [i \in 1..Len(points) |-> points[i].y]
    IN  IF points = <<>> THEN Raise("ValueError")
        ELSE Ok(BoundingBox(MinOf(xs, 2, xs[1]), MinOf(ys, 2, ys[1]),
                            MaxOf(xs, 2, xs[1]), MaxOf(ys, 2, ys[1])))

\* BoundingBox.expanded
expanded_by(self, margin) ==
    BoundingBox(RSub(self.x_min, margin), RSub(self.y_min, margin),
                RAdd(self.x_max, margin), RAdd(self.y_max, margin))

\* BoundingBox.union
union(self, other) ==
    BoundingBox(RMin(self.x_min, other.x_min), RMin(self.y_min, other.y_min),
                RMax(self.x_max, other.x_max), RMax(self.y_max, other.y_max))

\* Stroke.points
RECURSIVE StrokePointsFrom(_, _)
StrokePointsFrom(segments, i) ==
    IF i > Len(segments) THEN <<>>
    ELSE LET seg == segments[i]
         IN  <<seg.p0, seg.p1, seg.p2, seg.p3>>
                 \o StrokePointsFrom(segments, i + 1)

\* Skeleton(strokes, decorations); a stroke is its list of segments, a
\* decoration its position
Skeleton(strokes, decorations) ==
    [strokes |-> strokes, decorations |-> decorations]

RECURSIVE AllStrokePoints(_, _)
AllStrokePoints(strokes, i) ==
    IF i > Len(strokes) THEN <<>>
    ELSE StrokePointsFrom(strokes[i], 1) \o AllStrokePoints(strokes, i + 1)

\* Skeleton.bounds
SkeletonBounds(skeleton) ==
    LET all_pts == AllStrokePoints(skeleton.strokes, 1) \o skeleton.decorations
    IN  IF all_pts = <<>> THEN Ok(BoundingBox(Zero, Zero, Zero, Zero))
        ELSE from_points(all_pts)

RECURSIVE AllPolygonPoints(_, _)
AllPolygonPoints(polygons, i) ==
    IF i > Len(polygons) THEN <<>>
    ELSE polygons[i] \o AllPolygonPoints(polygons, i + 1)

\* Outline.bounds
OutlineBounds(outline) ==
    LET all_pts == AllPolygonPoints(outline.polygons, 1)
    IN  IF all_pts = <<>> THEN Ok(BoundingBox(Zero, Zero, Zero, Zero))
        ELSE from_points(all_pts)

\* --- calls on boxes ---------------------------------------------------------
MaxBoxPoints == 2
MaxBoxCalls == 2

BoxPoints == {Point(I2R(x), I2R(y)) : x \in {0, 2}, y \in {-1, 1}}
BoxMargins == {I2R(-1), Rat(-1, 2), Zero, One}
OtherBoxes == {BoundingBox(Zero, Zero, Zero, Zero),
               BoundingBox(I2R(1), I2R(-2), I2R(3), Zero)}

InitBox == BezierIdle /\ RngIdle /\ GenIdle /\ SlotIdle /\ ExpandIdle
           /\ given = [points |-> <<>>]
           /\ returned = [calls |-> 0]

\* points.append(p), before any call
AddBoxPoint(p) ==
    /\ returned.calls = 0
    /\ Len(given.points) < MaxBoxPoints
    /\ given' = [given EXCEPT !.points = Append(@, p)]
    /\ UNCHANGED returned
    /\ UNCHANGED notCallVars

BoxReturned(call, args, margin, result) ==
    /\ returned' = [calls |-> returned.calls + 1, call |-> call, args |-> args,
                    margin |-> margin, result |-> result]
    /\ UNCHANGED given
    /\ UNCHANGED notCallVars

\* BoundingBox.from_points(points)
FromPoints ==
    /\ returned.calls = 0
    /\ BoxReturned("from_points", <<>>, Zero, from_points(given.points))

\* Outline(polygons).bounds: no polygon, or the points as one polygon
OutlineBoundsOf(polygons) ==
    /\ returned.calls = 0
    /\ BoxReturned("Outline.bounds", <<polygons>>, Zero,
                   OutlineBounds(Outline(polygons)))

\* Skeleton(strokes, decorations).bounds: the points as decorations, or as the
\* ends of a one-line stroke
SkeletonBoundsOf(skeleton) ==
    /\ returned.calls = 0
    /\ BoxReturned("Skeleton.bounds", <<skeleton>>, Zero,
                   SkeletonBounds(skeleton))

BoxSkeletons ==
    {Skeleton(<<>>, given.points)}
    \cup IF Len(given.points) < 2 THEN {}
         ELSE {Skeleton(<<<<make_line(given.points[1], given.points[2])>>>>,
                        <<>>)}

\* box.expanded(margin), on the box returned last
Expanded(margin) ==
    /\ returned.calls \in 1..(MaxBoxCalls - 1)
    /\ returned.result.ok
    /\ BoxReturned("expanded", <<returned.result.value>>, margin,
                   Ok(expanded_by(returned.result.value, margin)))

\* box.union(other), on the box returned last
Union(other) ==
    /\ returned.calls \in 1..(MaxBoxCalls - 1)
    /\ returned.result.ok
    /\ BoxReturned("union", <<returned.result.value, other>>, Zero,
                   Ok(union(returned.result.value, other)))

NextBox ==
    \/ \E p \in BoxPoints : AddBoxPoint(p)
    \/ FromPoints
    \/ \E polygons \in {<<>>, <<given.points>>} : OutlineBoundsOf(polygons)
    \/ \E skeleton \in BoxSkeletons : SkeletonBoundsOf(skeleton)
    \/ \E margin \in BoxMargins : Expanded(margin)
    \/ \E other \in OtherBoxes : Union(other)

SpecBox == InitBox /\ [][NextBox]_vars

BoxInvariant(bb) == RLe(bb.x_min, bb.x_max) /\ RLe(bb.y_min, bb.y_max)
BoxCalled(call) == returned.calls > 0 /\ returned.call = call
ArgsInvariant ==
    \A i \in 1..Len(returned.args) : BoxInvariant(returned.args[i])
EmptyGlyphPart ==
    \/ BoxCalled("Outline.bounds") /\ returned.args[1] = <<>>
    \/ BoxCalled("Skeleton.bounds") /\ returned.args[1] = Skeleton(<<>>, <<>>)

\* C20: a box from from_points on a non-empty list, from union of two boxes
\* that satisfy the invariant, or from expanded(margin) of a box that satisfies
\* it, has x_min <= x_max and y_min <= y_max; the bounds of an empty Outline or
\* Skeleton are the box (0, 0, 0, 0)
C20_BoxInvariant ==
    /\ BoxCalled("from_points") /\ given.points # <<>>
          => returned.result.ok /\ BoxInvariant(returned.result.value)
    /\ (BoxCalled("union") \/ BoxCalled("expanded")) /\ ArgsInvariant
          => BoxInvariant(returned.result.value)
    /\ EmptyGlyphPart
          => returned.result = Ok(BoundingBox(Zero, Zero, Zero, Zero))

\* the same with the margin of expanded not negative
C20_HoldsForMarginFromZero ==
    /\ BoxCalled("from_points") /\ given.points # <<>>
          => returned.result.ok /\ BoxInvariant(returned.result.value)
    /\ BoxCalled("union") /\ ArgsInvariant
          => BoxInvariant(returned.result.value)
    /\ BoxCalled("expanded") /\ ArgsInvariant /\ RLe(Zero, returned.margin)
          => BoxInvariant(returned.result.value)
    /\ EmptyGlyphPart
          => returned.result = Ok(BoundingBox(Zero, Zero, Zero, Zero))

\* a box of width 0 expanded by -1: x_min = 1, x_max = -1
C20_ShrunkInsideOut ==
    /\ BoxCalled("expanded") /\ ArgsInvariant
    /\ ~BoxInvariant(returned.result.value)

-----------------------------------------------------------------------------
(* The two rail constructions of expansion.py called on a polyline given
   point by point along one axis line; a point may repeat the one before it,
   and the polyline may turn back on itself *)

MaxRailPoints == 3

RailPoints == {Point(I2R(x), I2R(y)) : x \in {0, 1, 2}, y \in {0, 1}}

\* the default style in gradient mode, and a pen half a unit wide that
\* tapers to half its width
RailStyles ==
    {[StyleDefault EXCEPT
          !.stroke_width_mode = EnumMembers.StrokeWidthMode.GRADIENT],
     [StyleDefault EXCEPT
          !.stroke_width_mode = EnumMembers.StrokeWidthMode.GRADIENT,
          !.stroke_width = Rat(1, 2), !.stroke_taper_ratio = Rat(1, 2)]}

InitRails == BezierIdle /\ RngIdle /\ GenIdle /\ SlotIdle /\ ExpandIdle
             /\ given \in {[style |-> style, polyline |-> <<>>] :
                              style \in RailStyles}
             /\ returned = NotReturned

\* polyline.append(p), all the points on one axis line
AddRailPoint(p) ==
    /\ ~returned.done
    /\ Len(given.polyline) < MaxRailPoints
    /\ \/ \A k \in 1..Len(given.polyline) : given.polyline[k].x = p.x
       \/ \A k \in 1..Len(given.polyline) : given.polyline[k].y = p.y
    /\ given' = [given EXCEPT !.polyline = Append(@, p)]
    /\ UNCHANGED returned
    /\ UNCHANGED notCallVars

\* StrokeExpander(given.style)._build_gradient_outline(given.polyline)
BuildGradientOutline ==
    /\ ~returned.done
    /\ returned' = [done |-> TRUE, call |-> "_build_gradient_outline",
                    result |-> _build_gradient_outline(given.style,
                                                       given.polyline)]
    /\ UNCHANGED given
    /\ UNCHANGED notCallVars

\* StrokeExpander(given.style)._fallback_outline(given.polyline)
FallbackOutline ==
    /\ ~returned.done
    /\ returned' = [done |-> TRUE, call |-> "_fallback_outline",
                    result |-> _fallback_outline(given.style, given.polyline)]
    /\ UNCHANGED given
    /\ UNCHANGED notCallVars

NextRails ==
    \/ \E p \in RailPoints : AddRailPoint(p)
    \/ BuildGradientOutline
    \/ FallbackOutline

SpecRails == InitRails /\ [][NextRails]_vars

\* what the claims speak of: the direction at vertex i, the arc-length
\* fraction t_i, the local width, and the two rail points of vertex i
RailN == Len(given.polyline)
RailDirection(i) ==
    IF i = 1 THEN PSub(given.polyline[2], given.polyline[1])
    ELSE IF i = RailN THEN PSub(given.polyline[RailN], given.polyline[RailN - 1])
    ELSE PSub(given.polyline[i + 1], given.polyline[i - 1])
RECURSIVE ArcTo(_)
ArcTo(i) ==
    IF i <= 1 THEN Zero
    ELSE RAdd(ArcTo(i - 1),
              RAdd(RAbs(RSub(given.polyline[i].x, given.polyline[i - 1].x)),
                   RAbs(RSub(given.polyline[i].y, given.polyline[i - 1].y))))
TaperedWidth(i) ==
    LET sw == given.style.stroke_width
        t == RDiv(ArcTo(i), ArcTo(RailN))
    IN  RAdd(sw, RMul(RSub(RMul(sw, given.style.stroke_taper_ratio), sw), t))
LocalWidth(i) ==
    IF returned.call = "_build_gradient_outline" THEN TaperedWidth(i)
    ELSE given.style.stroke_width
LeftRail(i) == returned.result[i]
RightRail(i) == returned.result[2 * RailN + 1 - i]
HasRails == returned.done /\ RailN >= 2 /\ Len(returned.result) = 2 * RailN
RailsAlong(i, nrm) ==
    /\ LeftRail(i) = PAdd(given.polyline[i],
                          PMul(nrm, RDiv(LocalWidth(i), I2R(2))))
    /\ RightRail(i) = PSub(given.polyline[i],
                           PMul(nrm, RDiv(LocalWidth(i), I2R(2))))
UnitVectors == {Point(One, Zero), Point(I2R(-1), Zero),
                Point(Zero, One), Point(Zero, I2R(-1))}

\* C21: in both rail constructions, at a vertex whose direction vector has
\* near-zero length the normal used is (0, 1): the rail points there are the
\* vertex moved up and down by half the local stroke width
C21_DegenerateNormalVertical ==
    HasRails =>
        \A i \in 1..RailN :
            NearZero(RailDirection(i)) => RailsAlong(i, Point(Zero, One))

\* what the code does there: both rail points are the vertex itself
C21_RailsMeetAtDegenerate ==
    HasRails =>
        \A i \in 1..RailN :
            NearZero(RailDirection(i)) =>
                LeftRail(i) = given.polyline[i] /\ RightRail(i) = given.polyline[i]

\* a repeated first point followed by a step: rails built, the first vertex
\* degenerate
C21_DegenerateVertexReached ==
    /\ HasRails
    /\ \E i \in 1..RailN : NearZero(RailDirection(i))

\* C22: in gradient mode the polygon of a polyline of n >= 2 points has 2n
\* points, the left rail forward and then the right rail backward; the rail
\* points of vertex i are polyline[i] +/- normal_i * w_i / 2, normal_i a unit
\* vector, w_i = sw + (sw * taper - sw) * t_i with t_i the arc-length fraction
C22_GradientRails ==
    (returned.done /\ returned.call = "_build_gradient_outline" /\ RailN >= 2)
    => /\ Len(returned.result) = 2 * RailN
       /\ \A i \in 1..RailN : \E nrm \in UnitVectors : RailsAlong(i, nrm)

\* where C22 holds: the polyline has length, and the direction at every
\* vertex too; the normal is the direction turned a quarter left
C22_HoldsOffDegenerate ==
    (returned.done /\ returned.call = "_build_gradient_outline" /\ RailN >= 2
        /\ \A i \in 1..RailN : ~NearZero(RailDirection(i)))
    => /\ Len(returned.result) = 2 * RailN
       /\ \A i \in 1..RailN :
             LET d == RailDirection(i)
                 len == RAdd(RAbs(d.x), RAbs(d.y))
             IN  RailsAlong(i, Point(RDiv(RNeg(d.y), len), RDiv(d.x, len)))
       /\ TaperedWidth(1) = given.style.stroke_width
       /\ TaperedWidth(RailN) = RMul(given.style.stroke_width,
                                     given.style.stroke_taper_ratio)

\* a polyline of two equal points comes back as it is, two points
C22_ZeroLengthReturned ==
    /\ returned.done /\ returned.call = "_build_gradient_outline"
    /\ RailN >= 2 /\ returned.result = given.polyline

-----------------------------------------------------------------------------
(* Claims on make_arc and normal, under SpecBezier *)

\* z-component of the cross product of two vectors: positive when q is to
\* the left of p
Cross(p, q) == RSub(RMul(p.x, q.y), RMul(p.y, q.x))
Dot(p, q) == RAdd(RMul(p.x, q.x), RMul(p.y, q.y))

\* C23: for start # end, make_arc(start, end, bulge) keeps p0 = start and
\* p3 = end and puts p1, p2 at the 1/3 and 2/3 chord points moved by
\* 0.8 * bulge * perp, perp the chord turned 90 degrees counter-clockwise:
\* both strictly left of start->end for bulge > 0, strictly right for
\* bulge < 0, and on the chord for bulge = 0, where the curve is
\* make_line(start, end)
C23_ArcBowsLeft ==
    (bezFrom.how = "make_arc" /\ bezFrom.start # bezFrom.end) =>
        LET start == bezFrom.start
            end == bezFrom.end
            bulge == bezFrom.bulge
            chord == PSub(end, start)
            perp == Point(RNeg(chord.y), chord.x)
            moved == PMul(perp, RMul(Rat(4, 5), bulge))
            side(p) == Cross(chord, PSub(p, start))
        IN  /\ bez.p0 = start /\ bez.p3 = end
            /\ bez.p1 = PAdd(PAdd(start, PMul(chord, Rat(1, 3))), moved)
            /\ bez.p2 = PAdd(PAdd(start, PMul(chord, Rat(2, 3))), moved)
            /\ RLt(Zero, bulge) => RLt(Zero, side(bez.p1)) /\ RLt(Zero, side(bez.p2))
            /\ RLt(bulge, Zero) => RLt(side(bez.p1), Zero) /\ RLt(side(bez.p2), Zero)
            /\ bulge = Zero => /\ side(bez.p1) = Zero /\ side(bez.p2) = Zero
                               /\ bez = make_line(start, end)

\* an arc with a positive bulge over a slanted chord
C23_Witness ==
    /\ bezFrom.how = "make_arc"
    /\ RLt(Zero, bezFrom.bulge)
    /\ bezFrom.start.x # bezFrom.end.x /\ bezFrom.start.y # bezFrom.end.y

\* arcs with a negative and with no bulge
C23_RightReached == bezFrom.how = "make_arc" /\ RLt(bezFrom.bulge, Zero)
                    /\ bezFrom.start # bezFrom.end
C23_StraightReached == bezFrom.how = "make_arc" /\ bezFrom.bulge = Zero
                       /\ bezFrom.start # bezFrom.end

\* C24: for every curve and t in [0, 1], normal(curve, t) is a unit vector,
\* the tangent turned 90 degrees counter-clockwise and normalised, its dot
\* product with the tangent 0; when the tangent has length below 1e-12 it is
\* exactly (0, 1)
C24_NormalUnitLeft ==
    bzCall.op = "normal" =>
        LET tan == tangent(bez, bzCall.t)
            out == bzCall.out
        IN  IF NearZero(tan) THEN out = Point(Zero, One)
            ELSE /\ LengthSq(out) = One
                 /\ Dot(out, tan) = Zero
                 /\ RLt(Zero, Cross(tan, out))

\* a normal strictly inside the curve, where the tangent is neither zero nor
\* pointing right (so that the normal is not (0, 1))
C24_Witness ==
    /\ bzCall.op = "normal"
    /\ RLt(Zero, bzCall.t) /\ RLt(bzCall.t, One)
    /\ ~NearZero(tangent(bez, bzCall.t))
    /\ bzCall.out # Point(Zero, One)

\* the degenerate cases: p0 = p1 at t = 0, and all four points equal
C24_DegenerateReached ==
    /\ bzCall.op = "normal"
    /\ NearZero(tangent(bez, bzCall.t))
    /\ bez.p0 # bez.p3
C24_PointCurveReached ==
    /\ bzCall.op = "normal"
    /\ bez.p0 = bez.p1 /\ bez.p1 = bez.p2 /\ bez.p2 = bez.p3

-----------------------------------------------------------------------------
(* select_templates called for any count, and the turns of generate_all on
   the names it returns *)

MaxCount == 78

SelectRng(seed) == SkeletonGenerator(SeededRNG(seed, "root"), StyleDefault,
                                     ComponentLibrary(SeededRNG(seed, "root"),
                                                      StyleDefault))

InitSelect == BezierIdle /\ RngIdle /\ GenIdle /\ SlotIdle /\ ExpandIdle
              /\ given \in {[seed |-> seed, count |-> 0] : seed \in Seeds}
              /\ returned = NotReturned

\* the caller asks for one more name
MoreCount ==
    /\ ~returned.done
    /\ given.count < MaxCount
    /\ given' = [given EXCEPT !.count = @ + 1]
    /\ UNCHANGED returned
    /\ UNCHANGED notCallVars

\* template_names = select_templates(self._rng, given.count)
SelectTemplates ==
    /\ ~returned.done
    /\ returned' = [done |-> TRUE, call |-> "select_templates",
                    names |-> select_templates(SelectRng(given.seed).rng,
                                               given.count)]
    /\ UNCHANGED given
    /\ UNCHANGED notCallVars

\* the turn of the loop of generate_all for slot i of the names returned
GenerateTurn(i) ==
    /\ returned.done /\ returned.call = "select_templates"
    /\ i < Len(returned.names)
    /\ \E turn \in {GlyphTurn(Ok([gen |-> SelectRng(given.seed),
                                  skeletons |-> <<>>]),
                              returned.names, i)} :
          returned' = [done |-> TRUE, call |-> "generate_all",
                       tname |-> returned.names[i + 1],
                       ok |-> turn.ok,
                       template_name |->
                           IF turn.ok THEN turn.value.skeletons[1].template_name
                           ELSE turn.error]
    /\ UNCHANGED given
    /\ UNCHANGED notCallVars

NextSelect ==
    \/ MoreCount
    \/ SelectTemplates
    \/ \E i \in 0..(MaxCount - 1) : GenerateTurn(i)

SpecSelect == InitSelect /\ [][NextSelect]_vars

CatalogNames == {TemplateNames[k] : k \in 1..Len(TemplateNames)}
CatalogSize == Len(TemplateNames)
Selected == returned.done /\ returned.call = "select_templates"
IsVariant(name) ==
    \E base \in CatalogNames, j \in 2..(MaxCount + 2) :
        name = base \o "_v" \o ToString(j)

\* C25: select_templates(rng, count) returns exactly count names, pairwise
\* distinct, for every count >= 0: catalog keys with no reuse up to the size
\* of the catalog, and beyond it numbered variants <catalog name>_v2, _v3, ...
C25_CountDistinctNames ==
    Selected =>
        /\ Len(returned.names) = given.count
        /\ \A i, j \in 1..Len(returned.names) :
              i # j => returned.names[i] # returned.names[j]
        /\ \A k \in 1..Len(returned.names) :
              IF k <= CatalogSize THEN returned.names[k] \in CatalogNames
              ELSE IsVariant(returned.names[k])

\* a call for twice the catalog and one: variants _v2 and _v3
C25_Witness ==
    /\ Selected
    /\ given.count = 2 * CatalogSize + 1
    /\ \E base \in CatalogNames :
          returned.names[given.count] = base \o "_v3"

\* a call for no name
C25_NoneAsked == Selected /\ given.count = 0 /\ returned.names = <<>>

\* C29: for every name select_templates can return, _generate_one resolves
\* it to a catalog entry without a lookup error, and the template_name
\* recorded on the skeleton is a key of the catalog, that of the entry the
\* glyph was built from
C29_TemplateNameIsKey ==
    (returned.done /\ returned.call = "generate_all") =>
        /\ returned.ok
        /\ returned.template_name \in CatalogNames
        /\ returned.tname \in CatalogNames
              => returned.template_name = returned.tname

\* where C29 holds: names with no "_v" in the catalog name
C29_HoldsWithoutV ==
    (returned.done /\ returned.call = "generate_all"
        /\ SplitV(returned.tname) \in CatalogNames)
    => /\ returned.ok
       /\ returned.template_name \in CatalogNames
       /\ returned.tname \in CatalogNames
             => returned.template_name = returned.tname

\* the two failures: "parallel" recorded for "parallel_vert", and the lookup
\* error of its variant
C29_ParallelRecorded ==
    /\ returned.done /\ returned.call = "generate_all"
    /\ returned.ok /\ returned.template_name = "parallel"
C29_VariantKeyError ==
    /\ returned.done /\ returned.call = "generate_all"
    /\ ~returned.ok /\ returned.template_name = "KeyError"
-----------------------------------------------------------------------------
(* flatten on Python floats near the top of their range.  A float is an
   IEEE 754 double: a finite value, +inf, -inf or nan.  Coordinates and
   tolerances are counted in units of 2^1023, so that the finite doubles are
   the values of magnitude below 2 units; values on the dyadic grid used here
   are held exactly, and rounding below the top of the range is left out.
   The recursion of _flatten_recursive is taken one call at a time. *)

\* 2^1024, the magnitude at which a result becomes inf, in units of 2^1023
DoubleLimit == I2R(2^(1024 - 1023))

Fin(r) == [k |-> "fin", v |-> r]
Inf == [k |-> "inf", v |-> Zero]
NegInf == [k |-> "-inf", v |-> Zero]
NaN == [k |-> "nan", v |-> Zero]

\* the double nearest to the real r
Float(r) ==
    IF RLe(DoubleLimit, r) THEN Inf
    ELSE IF RLe(r, RNeg(DoubleLimit)) THEN NegInf
    ELSE Fin(r)

FNeg(a) ==
    IF a.k = "inf" THEN NegInf
    ELSE IF a.k = "-inf" THEN Inf
    ELSE IF a.k = "nan" THEN NaN
    ELSE Fin(RNeg(a.v))

\* a + b
FAdd(a, b) ==
    IF a.k = "nan" \/ b.k = "nan" THEN NaN
    ELSE IF a.k = "fin" /\ b.k = "fin" THEN Float(RAdd(a.v, b.v))
    ELSE IF a.k = "fin" THEN b
    ELSE IF b.k = "fin" THEN a
    ELSE IF a.k = b.k THEN a
    ELSE NaN

\* a - b
FSub(a, b) == FAdd(a, FNeg(b))

\* the sign of a float that is not nan: -1, 0 or 1
FSign(a) ==
    IF a.k = "inf" THEN 1
    ELSE IF a.k = "-inf" THEN -1
    ELSE IF a.v.n > 0 THEN 1
    ELSE IF a.v.n < 0 THEN -1
    ELSE 0

\* a * b
FMul(a, b) ==
    IF a.k = "nan" \/ b.k = "nan" THEN NaN
    ELSE IF a.k = "fin" /\ b.k = "fin" THEN Float(RMul(a.v, b.v))
    ELSE IF FSign(a) * FSign(b) = 0 THEN NaN
    ELSE IF FSign(a) * FSign(b) > 0 THEN Inf
    ELSE NegInf

\* abs(a)
FAbs(a) ==
    IF a.k = "nan" THEN NaN
    ELSE IF a.k = "fin" THEN Fin(RAbs(a.v))
    ELSE Inf

\* a < b
FLt(a, b) ==
    IF a.k = "nan" \/ b.k = "nan" THEN FALSE
    ELSE IF a.k = "fin" /\ b.k = "fin" THEN RLt(a.v, b.v)
    ELSE IF a.k = b.k THEN FALSE
    ELSE a.k = "-inf" \/ b.k = "inf"

\* max(a, b) of Python: b when b > a, otherwise a
PyMax(a, b) == IF FLt(a, b) THEN b ELSE a

\* math.hypot(x, y), squared where it is finite: inf when either argument is
\* infinite, otherwise nan when either is nan
HypotSq(x, y) ==
    IF x.k \in {"inf", "-inf"} \/ y.k \in {"inf", "-inf"} THEN Inf
    ELSE IF x.k = "nan" \/ y.k = "nan" THEN NaN
    ELSE With(RAdd(RMul(x.v, x.v), RMul(y.v, y.v)), LAMBDA sq :
             IF RLe(RMul(DoubleLimit, DoubleLimit), sq) THEN Inf ELSE Fin(sq))

\* Point.__sub__
FPSub(p, q) == Point(FSub(p.x, q.x), FSub(p.y, q.y))

\* Point.lerp
FLerp(p, q, t) ==
    Point(FAdd(p.x, FMul(FSub(q.x, p.x), t)),
          FAdd(p.y, FMul(FSub(q.y, p.y), t)))

\* split on floats
FSplit(b, t) ==
    LET p01 == FLerp(b.p0, b.p1, t)
        p12 == FLerp(b.p1, b.p2, t)
        p23 == FLerp(b.p2, b.p3, t)
        p012 == FLerp(p01, p12, t)
        p123 == FLerp(p12, p23, t)
        p0123 == FLerp(p012, p123, t)
    IN  [left |-> CubicBezier(b.p0, p01, p012, p0123),
         right |-> CubicBezier(p0123, p123, p23, b.p3)]

\* abs(d.x * nx + d.y * ny) squared where it is finite, for
\* nx, ny = -chord.y / chord_len, chord.x / chord_len and chord_len not
\* below 1e-12; len is HypotSq of the chord
Deviation(d, chord, len) ==
    IF len.k = "nan" THEN NaN
    ELSE IF chord.x.k # "fin" \/ chord.y.k # "fin" THEN NaN
    ELSE IF len.k = "inf"
    THEN FAbs(FAdd(FMul(d.x, Fin(Zero)), FMul(d.y, Fin(Zero))))
    ELSE IF d.x.k = "fin" /\ d.y.k = "fin"
    THEN With(RSub(RMul(d.y.v, chord.x.v), RMul(d.x.v, chord.y.v)), LAMBDA c :
         With(RDiv(RMul(c, c), len.v), LAMBDA sq :
             IF RLe(RMul(DoubleLimit, DoubleLimit), sq) THEN Inf ELSE Fin(sq)))
    ELSE FAbs(FAdd(FMul(d.x, Fin(I2R(-FSign(chord.y)))),
                   FMul(d.y, Fin(I2R(FSign(chord.x))))))

\* _flatness on floats, squared where it is finite
FFlatnessSq(b) ==
    LET chord == FPSub(b.p3, b.p0)
        len == HypotSq(chord.x, chord.y)
        d1 == FPSub(b.p1, b.p0)
        d2 == FPSub(b.p2, b.p0)
    IN  IF len = Fin(Zero)
        THEN PyMax(HypotSq(d1.x, d1.y), HypotSq(d2.x, d2.y))
        ELSE PyMax(Deviation(d1, chord, len), Deviation(d2, chord, len))

\* _flatness(bez) <= tolerance, for a finite tolerance > 0
FIsFlat(b, tol) ==
    With(FFlatnessSq(b), LAMBDA f : f.k = "fin" /\ RLe(f.v, RMul(tol, tol)))

\* the calls of _flatten_recursive one inside another that the interpreter
\* allows before it raises RecursionError
MaxDepth == 4

\* control points at the top of the range of a double
FlattenCoords == {-1, 0, 1}
FlattenEnds == {Point(Fin(I2R(x)), Fin(Zero)) : x \in FlattenCoords}
FlattenControls == {Point(Fin(I2R(x)), Fin(I2R(y))) : x \in {-1, 1}, y \in {0, 1}}
FlattenCurves ==
    {CubicBezier(p0, p1, p2, p3) :
        p0 \in FlattenEnds, p1 \in FlattenControls,
        p2 \in FlattenControls, p3 \in FlattenEnds}
FlattenTolerances == {Rat(1, 2), One}

InitFlatten == BezierIdle /\ RngIdle /\ GenIdle /\ SlotIdle /\ ExpandIdle
               /\ given \in {[bez |-> b, tolerance |-> tol] :
                                b \in FlattenCurves, tol \in FlattenTolerances}
               /\ returned = NotReturned

Running == returned.done = FALSE /\ returned # NotReturned

\* flatten(given.bez, given.tolerance) entered: result = [bez.p0] and the
\* first call of _flatten_recursive pending
FlattenCall ==
    /\ returned = NotReturned
    /\ returned' = [done |-> FALSE, result |-> <<given.bez.p0>>,
                    pending |-> <<[bez |-> given.bez, depth |-> 1]>>]
    /\ UNCHANGED given
    /\ UNCHANGED notCallVars

\* one call of _flatten_recursive on a curve that passes the flatness test
FlattenAppend ==
    /\ Running /\ returned.pending # <<>>
    /\ \E call \in {Head(returned.pending)} :
        /\ FIsFlat(call.bez, given.tolerance)
        /\ returned' = [returned EXCEPT !.result = Append(@, call.bez.p3),
                                        !.pending = Tail(@)]
    /\ UNCHANGED given
    /\ UNCHANGED notCallVars

\* one call of _flatten_recursive on a curve that fails the flatness test:
\* the two halves are the next calls, left before right
FlattenSubdivide ==
    /\ Running /\ returned.pending # <<>>
    /\ \E call \in {Head(returned.pending)} :
        /\ ~FIsFlat(call.bez, given.tolerance)
        /\ call.depth < MaxDepth
        /\ \E s \in {FSplit(call.bez, Fin(Rat(1, 2)))} :
            returned' = [returned EXCEPT !.pending =
                <<[bez |-> s.left, depth |-> call.depth + 1],
                  [bez |-> s.right, depth |-> call.depth + 1]>> \o Tail(@)]
    /\ UNCHANGED given
    /\ UNCHANGED notCallVars

\* the call that would go one deeper than the interpreter allows
FlattenOverflow ==
    /\ Running /\ returned.pending # <<>>
    /\ \E call \in {Head(returned.pending)} :
        /\ ~FIsFlat(call.bez, given.tolerance)
        /\ call.depth >= MaxDepth
        /\ returned' = [done |-> TRUE, result |-> Raise("RecursionError"),
                        deepest |-> call.bez]
    /\ UNCHANGED given
    /\ UNCHANGED notCallVars

\* flatten returns result
FlattenReturn ==
    /\ Running /\ returned.pending = <<>>
    /\ returned' = [done |-> TRUE, result |-> Ok(returned.result)]
    /\ UNCHANGED given
    /\ UNCHANGED notCallVars

NextFlatten ==
    \/ FlattenCall
    \/ FlattenAppend
    \/ FlattenSubdivide
    \/ FlattenOverflow
    \/ FlattenReturn

SpecFlatten == InitFlatten /\ [][NextFlatten]_vars

\* a float that is a number
IsFinite(a) == a.k = "fin"
FinitePoint(p) == IsFinite(p.x) /\ IsFinite(p.y)
FiniteCurve(b) ==
    FinitePoint(b.p0) /\ FinitePoint(b.p1) /\ FinitePoint(b.p2) /\ FinitePoint(b.p3)

\* every difference of two control points of the curve is a finite float
SpanFinite(b) ==
    \A p \in {b.p0, b.p1, b.p2, b.p3} : \A q \in {b.p0, b.p1, b.p2, b.p3} :
        FinitePoint(FPSub(p, q))

\* C28: flatten terminates for every curve with finite control points and
\* every tolerance > 0: the recursion is finite and flatten returns its
\* polyline
C28_FlattenReturns ==
    (returned.done /\ FiniteCurve(given.bez)
        /\ RLt(Zero, given.tolerance)) => returned.result.ok

\* what holds: flatten returns its polyline for every curve whose control
\* points differ by finite floats
C28_ReturnsWhenSpanFinite ==
    (returned.done /\ SpanFinite(given.bez)) => returned.result.ok

\* a curve of finite span returned after being subdivided
C28_SubdividedReturned ==
    /\ returned.done /\ SpanFinite(given.bez)
    /\ returned.result.ok
    /\ Len(returned.result.value) > 2

\* a curve of finite control points whose chord overflows, stopped by the
\* interpreter on a half whose coordinates are no longer numbers
C28_RecursionErrorReached ==
    /\ returned.done /\ FiniteCurve(given.bez)
    /\ returned.result = Raise("RecursionError")
    /\ ~FiniteCurve(returned.deepest)
-----------------------------------------------------------------------------
(* Two SeededRNG objects forked from roots of one seed, each along its own
   sequence of fork(subdomain) calls: given keeps the two sequences,
   returned the two objects *)

MaxChain == 2

\* two subdomains the pipeline forks with, and three that it does not
ForkNames == {"skeleton", "glyph_00", "a", "b", "a/b"}

InitFork == BezierIdle /\ RngIdle /\ GenIdle /\ SlotIdle /\ ExpandIdle
            /\ given \in {[seed |-> seed, chains |-> << <<>>, <<>> >>] :
                             seed \in Seeds}
            /\ returned = <<SeededRNG(given.seed, "root"),
                            SeededRNG(given.seed, "root")>>

\* returned[k] = returned[k].fork(subdomain)
ForkChain(k, subdomain) ==
    /\ Len(given.chains[k]) < MaxChain
    /\ given' = [given EXCEPT !.chains[k] = Append(@, subdomain)]
    /\ returned' = [returned EXCEPT ![k] = fork(@, subdomain)]
    /\ UNCHANGED notCallVars

NextFork ==
    \E k \in {1, 2}, subdomain \in ForkNames : ForkChain(k, subdomain)

SpecFork == InitFork /\ [][NextFork]_vars

\* the text hashed for the derived seed of an object
HashedText(r) == ToString(r.seed) \o ":" \o r.domain

HasSlash(s) == \E i \in 1..Len(s) : SubSeq(s, i, i) = "/"
SlashFree(chain) == \A i \in 1..Len(chain) : ~HasSlash(chain[i])

C30_SlashCollides ==
    /\ given.chains[1] = <<"a/b">>
    /\ given.chains[2] = <<"a", "b">>
    /\ returned[1] = returned[2]
====
